---- MODULE Spec2Model ----
(***************************************************************************)
(* Model of the span buffering / export pipeline of the AIQA python        *)
(* client (client-python/aiqa/aiqa_exporter.py): AIQASpanExporter with its  *)
(* dedup buffer, the single-flight flush(), the auto-flush worker thread    *)
(* and shutdown().                                                          *)
(*                                                                          *)
(* Threads: producers calling export(), the auto-flush worker "w" started   *)
(* by the constructor, a thread "f" that calls flush() explicitly on its    *)
(* own event loop, and a thread "s" that calls shutdown().                  *)
(*                                                                          *)
(* Every `with self.buffer_lock:` block is one atomic step: the block never *)
(* blocks or yields while it holds the lock, so the lock makes it atomic.   *)
(* self.flush_lock is held across the send, so it is explicit state.        *)
(***************************************************************************)
EXTENDS Integers, Sequences, FiniteSets, TLC

(* ---------------------------------------------------------------- bounds *)

\* number of distinct (traceId, spanId) identities a producer may export
NumKeys == 2
\* total number of serialized span dicts that export() appends to the buffer
MaxAdmit == 2
\* longest list of spans handed to one export() call
MaxBatch == 2

Keys == 1..NumKeys
Ids == 1..MaxAdmit

\* the threads that run a flush pass
Worker == "w"
Flusher == "f"
Stopper == "s"
FlushCallers == {Worker, Flusher}
\* a second coroutine that awaits flush() on the event loop of "f"
Flusher2 == "g"
Flushers == FlushCallers \cup {Flusher2}
Threads == {Worker, Flusher, Flusher2, Stopper}
Free == "free"

\* how the awaited _send_spans() can end: normally, with a plain Exception
\* (non-2xx status, transport failure), with the interpreter-shutdown
\* RuntimeError, or with any other RuntimeError
Outcomes == {"ok", "exception", "runtime_shutdown", "runtime_other"}
\* how the blocking _send_spans_sync() can end
SyncOutcomes == {"ok", "exception"}

VARIABLES
    buffer,              \* self.buffer: list of serialized spans
    buffer_span_keys,    \* self.buffer_span_keys: set of (traceId, spanId)
    flush_lock,          \* self.flush_lock: its holder, or Free
    shutdown_requested,  \* self.shutdown_requested
    server_url,          \* whether self.server_url is non-empty
    pc,                  \* where each thread is
    spans_to_flush,      \* the local spans_to_flush of each thread's pass
    outcome,             \* how the send of each thread's pass ended (while it runs)
    result,              \* how each thread's last flush()/shutdown() call ended
    sends,               \* send attempts made by each thread's current call
    admitted,            \* history: key of every dict appended by export(), by id
    timesSent,           \* history: per id, in how many successful sends it was
    restored,            \* history: the batch last put back and not re-extracted
    duplicates_count,    \* duplicates_count of the last export() call
    duplicate_unbuffered,\* history: the last export() dropped a span whose key
                         \* was tracked while no buffered dict had it
    sender,              \* history: the send function each thread's call used
    extracts,            \* history: extract-and-clear steps of each thread's call
    slept,               \* history: the worker has slept an interval since
                         \* its last flush() (or since it was started) and
                         \* has not stopped
    admitted_at_extract, \* history: records admitted before the extract-and-
                         \* clear of the running shutdown() pass
    failed_inflight,     \* history: ids of the worker batch whose send failed
                         \* while shutdown() was waiting to start its pass
    quiet                \* history: "first" once a shutdown() has made its
                         \* extract-and-clear, "again" once shutdown() was
                         \* called after that, "no" since the last export()

VARIABLES
    unit,                \* the decorated function
    rewraps,             \* history: times the traced function was decorated again
    w_pc,                \* where the current call of the function is
    span,                \* the span of the current call
    spans_started,       \* history: spans started by the current call
    attached,            \* history: context attaches of the current call
    detached,            \* history: context detaches of the current call
    executed,            \* history: completed runs of the wrapped function
    unit_did,            \* history: how the wrapped function itself ended
    caller,              \* what the caller got from its last call or next()
    generator,           \* the generator object of the wrapped function
    yielded_values,      \* self._yielded_values
    exhausted,           \* self._exhausted
    delivered,           \* history: the items the consumer received
    late_nexts           \* history: next() calls made after exhaustion

VARIABLES
    locks,               \* the holder of self.buffer_lock and of self.flush_lock
    lk_pc                \* where each thread is in its export() / flush() /
                         \* shutdown() call, by the lock blocks of the call

VARIABLES
    cached,              \* get_client's lru_cache holds a result
    tracer_provider,     \* the global tracer provider
    c_pc,                \* where each caller is in get_client()
    c_result,            \* how each caller's last get_client() call ended
    provider,            \* the local `provider` of each caller's _init_tracing
    span_processors,     \* per provider, the AIQASpanExporters added to it
    exporters,           \* the AIQASpanExporters constructed, by constructor
    client               \* the module's `client` dict

VARIABLES
    current_span,        \* the span that is current in the ambient context
    context_token,       \* self._context_token of each TracedGenerator: what
                         \* was current when its span was attached
    g_pc,                \* where each generator is: not created, open, ended
    g_yielded            \* how many items each generator has passed on

\* the state of the exporter
evars == <<buffer, buffer_span_keys, flush_lock, shutdown_requested, server_url,
           pc, spans_to_flush, outcome, result, sends, admitted, timesSent,
           restored, duplicates_count, duplicate_unbuffered, sender, extracts,
           slept, admitted_at_extract, failed_inflight, quiet>>

\* the state of the tracing wrapper
wvars == <<unit, rewraps, w_pc, span, spans_started, attached, detached,
           executed, unit_did, caller, generator, yielded_values, exhausted,
           delivered, late_nexts>>

\* the state of the lock protocol
lvars == <<locks, lk_pc>>

\* the state of the client
cvars == <<cached, tracer_provider, c_pc, c_result, provider, span_processors,
           exporters, client>>

\* the state of the ambient context
xvars == <<current_span, context_token, g_pc, g_yielded>>

vars == <<evars, wvars, lvars, cvars, xvars>>

(* ------------------------------------------------------- pure operations *)

\* span_key = (serialized["traceId"], serialized["spanId"])
SpanKey(serialized) == serialized.key

\* the keys of a list of serialized spans
KeysOf(spans) == {SpanKey(spans[i]) : i \in 1..Len(spans)}

\* the ids (dict identities) of a list of serialized spans
IdsOf(spans) == {spans[i].id : i \in 1..Len(spans)}

\* export() without the `span_key not in self.buffer_span_keys` test
RECURSIVE ExportLoopNoDedup(_, _, _, _, _)
ExportLoopNoDedup(spans, keys, serialized_spans, n, d) ==
    IF spans = <<>>
    THEN [serialized_spans |-> serialized_spans, keys |-> keys,
          duplicates_count |-> d]
    ELSE ExportLoopNoDedup(Tail(spans), keys \cup {Head(spans)},
                           Append(serialized_spans,
                                  [key |-> Head(spans), id |-> n + 1]),
                           n + 1, d)

\* the `for span in spans` loop of export(): serializes each span and keeps
\* it unless its key is tracked already; n is the number of dicts kept so
\* far by all calls, d the duplicates counted so far by this call
RECURSIVE ExportLoop(_, _, _, _, _)
ExportLoop(spans, keys, serialized_spans, n, d) ==
    IF spans = <<>>
    THEN [serialized_spans |-> serialized_spans, keys |-> keys,
          duplicates_count |-> d]
    ELSE LET span_key == Head(spans) IN
         IF span_key \notin keys
         THEN ExportLoop(Tail(spans), keys \cup {span_key},
                         Append(serialized_spans, [key |-> span_key, id |-> n + 1]),
                         n + 1, d)
         ELSE ExportLoop(Tail(spans), keys, serialized_spans, n, d + 1)

\* an extraction that copies and clears in two critical sections: the span
\* appended between the two is wiped without being in the snapshot
ExtractAndRemoveLossy(buf) ==
    [spans |-> IF buf = <<>> THEN <<>> ELSE SubSeq(buf, 1, Len(buf) - 1),
     buffer |-> <<>>]

\* an extraction that copies the buffer and forgets to clear it
ExtractAndRemoveNoClear(buf) == [spans |-> buf, buffer |-> buf]

\* _extract_and_remove_spans_from_buffer: the snapshot and what is left
ExtractAndRemove(buf) == [spans |-> buf, buffer |-> <<>>]

\* a release of keys that discards nothing
RemoveSpanKeysNothing(keys, spans) == keys

\* _remove_span_keys_from_tracking: discard every key of spans
RemoveSpanKeys(keys, spans) == keys \ KeysOf(spans)

\* a restore that puts nothing back
PrependSpansNothing(buf, spans) == buf

\* a restore that extends the buffer instead of prepending to it
PrependSpansAtTail(buf, spans) == buf \o spans

\* _prepend_spans_to_buffer: self.buffer[:0] = spans
PrependSpans(buf, spans) == spans \o buf

\* _prepend_spans_to_buffer: the key set rebuilt from the buffer
RebuildKeys(buf) == KeysOf(buf)

\* the except clauses of flush(): does the failure reach the caller?
FlushRaises(o, shutdown) ==
    CASE o = "runtime_shutdown" -> TRUE
      [] o = "runtime_other"    -> TRUE
      [] o = "exception"        -> shutdown
      [] OTHER                  -> FALSE

\* the coroutines that run on the same event loop (the same thread) as t
OnLoop(t) == IF t \in {Flusher, Flusher2} THEN {Flusher, Flusher2} ELSE {t}

\* The thread of t's event loop is free to run t: every other coroutine of
\* the loop is not started or is suspended at `await self._send_spans(...)`.
\* A coroutine inside `with self.flush_lock:` keeps the thread, also while
\* it blocks in the acquire of the threading.Lock.
LoopFree(t) == \A u \in OnLoop(t) \ {t} : pc[u] \in {"idle", "send"}

\* a worker whose loop is left when its flush() call is over
ReturnSiteStop(t) == IF t = Worker THEN "w_stopped" ELSE "idle"

\* where a thread goes when its flush() call is over
ReturnSite(t) == IF t = Worker THEN "w_sleep" ELSE "idle"

\* all non-empty span lists of length <= MaxBatch over Keys
SpanLists == UNION {[1..n -> Keys] : n \in 1..MaxBatch}

\* the largest key among ks, 0 when there is none
MaxKey(ks) == IF ks = {} THEN 0 ELSE CHOOSE k \in ks : \A j \in ks : j <= k

\* The code compares span identities for equality only, so which identity is
\* which does not matter: identities are numbered in the order in which the
\* producers first export them. m is the largest number in use.
RECURSIVE FirstUseOrder(_, _)
FirstUseOrder(spans, m) ==
    \/ spans = <<>>
    \/ /\ spans # <<>>
       /\ Head(spans) <= m + 1
       /\ FirstUseOrder(Tail(spans), IF Head(spans) > m THEN Head(spans) ELSE m)

(* ------------------------------------------------- the tracing wrapper *)
(* WithTracing (client-python/aiqa/tracing.py) wraps a function so that    *)
(* each call runs inside a span.  One decorated function and its current   *)
(* call are followed at a time.  Span, context and generator operations of *)
(* OpenTelemetry and of Python are modelled by what the wrapper relies on: *)
(* set_attribute / set_status / record_exception act on a recording span   *)
(* only, `with tracer.start_as_current_span(...)` ends the span and        *)
(* detaches the context when its block is left, a finished generator       *)
(* raises StopIteration, and only a coroutine can be awaited.              *)

\* most items a wrapped generator yields
MaxItems == 11
\* most times WithTracing is applied again to a traced function
MaxRewrap == 2
\* most next() calls made on a traced generator after it is exhausted
MaxLateNext == 2
\* how many traced generators are created in one execution context
MaxGenerators == 3
\* how many items each of them passes on
MaxYield == 1

\* sample_size = min(10, len(self._yielded_values))
SampleLimit == 10

\* the four kinds of function the decorator tells apart
Shapes == {"plain", "async", "generator", "async_generator"}

\* the argument name=None
NoName == "none"
\* the names a span can be given with name=...
Names == {NoName, "custom"}
\* filter_output=None, or a function that replaces the output by a constant
FilterOutputs == {"none", "redact"}
\* ignore_output=None (or empty), or a list of keys
IgnoreOutputs == {{}, {"a", "sample_values"}}

(* Python values, by what _serialize_for_span tells apart *)
NoneValue == [kind |-> "none"]
Prim(n) == [kind |-> "prim", v |-> n]
List(items) == [kind |-> "list", items |-> items]
Dict(d) == [kind |-> "dict", d |-> d]
\* an object that json.dumps cannot encode
Object == [kind |-> "object"]
\* the str that json.dumps(x) returns
JsonStr(x) == [kind |-> "str", json |-> x]
\* the str that str(x) returns
Repr(x) == [kind |-> "str", repr |-> x]

\* isinstance(value, (str, int, float, bool, bytes)) or value is None
IsPrimitive(value) == value.kind \in {"none", "prim", "str"}

\* _serialize_for_span: primitives and lists of primitives are kept, anything
\* else becomes its JSON text, or its str() when json.dumps fails
SerializeForSpan(value) ==
    IF IsPrimitive(value) THEN value
    ELSE IF value.kind = "list"
            /\ \A i \in 1..Len(value.items) : IsPrimitive(value.items[i])
         THEN value
    ELSE IF value.kind = "object" THEN Repr(value)
    ELSE JsonStr(value)

\* the values a wrapped function returns
ReturnValues ==
    {NoneValue, Prim(1), List(<<Prim(1), Prim(2)>>),
     Dict([a |-> Prim(1), b |-> Prim(2)]), Object}

\* the positional arguments of a call
ArgLists == {<<>>, <<Prim(1)>>, <<Prim(1), Prim(2)>>}

\* _prepare_input, for positional arguments (filter_input and ignore_input
\* are left unset)
PrepareInput(args) ==
    IF args = <<>> THEN NoneValue
    ELSE IF Len(args) = 1 THEN SerializeForSpan(args[1])
    ELSE Dict([args |-> [i \in 1..Len(args) |-> SerializeForSpan(args[i])]])

\* filter_output(output_data)
ApplyFilter(filter_output, output_data) ==
    IF filter_output = "redact" THEN Prim(0) ELSE output_data

\* _prepare_and_filter_output
PrepareAndFilterOutput(result_value, filter_output, ignore_output) ==
    LET output_data == IF filter_output # "none"
                       THEN ApplyFilter(filter_output, result_value)
                       ELSE result_value
    IN  IF ignore_output # {} /\ output_data.kind = "dict"
        THEN Dict([k \in DOMAIN output_data.d \ ignore_output |-> output_data.d[k]])
        ELSE output_data

(* exceptions: an instance of Exception, or of BaseException only         *)
(* (KeyboardInterrupt, SystemExit, asyncio.CancelledError)                 *)
NoExc == [class |-> "none", msg |-> ""]
Exc(class, msg) == [class |-> class, msg |-> msg]
\* isinstance(exception, Exception)
IsException(exception) == exception.class = "Exception"
\* what `await x` raises when x is no awaitable
TypeErrorNotAwaitable == Exc("Exception", "TypeError: object can't be used in 'await' expression")
\* what fn(*args) raises when the arguments do not fit
TypeErrorBadCall == Exc("Exception", "TypeError: missing required argument")

\* what fn(*args, **kwargs) returns, by the kind of function fn is
CallResultKind(shape) ==
    CASE shape = "plain"           -> "value"
      [] shape = "async"           -> "coroutine"
      [] shape = "generator"       -> "generator"
      [] shape = "async_generator" -> "async_generator"

\* can `await x` be evaluated for an x of this kind?
Awaitable(k) == k = "coroutine"

(* what a call, a next() or the wrapped function itself ended with *)
Outcome(kind, v, exc) == [kind |-> kind, v |-> v, exc |-> exc]
NoOutcome == Outcome("none", NoneValue, NoExc)
Returned(v) == Outcome("return", v, NoExc)
Raised(exc) == Outcome("raise", NoneValue, exc)
\* StopIteration / StopAsyncIteration
Stopped == Outcome("stop", NoneValue, NoExc)
\* how a wrapped plain or async function ends; what the context manager of
\* start_as_current_span does with an exception that is no Exception is
\* decided by the OpenTelemetry library, so such a raise is not followed
UnitOutcomes ==
    {Returned(v) : v \in ReturnValues} \cup {Raised(Exc("Exception", "boom"))}

(* spans *)
NoSpan ==
    [name |-> "", recording |-> FALSE, input |-> NoneValue, output |-> NoneValue,
     status |-> "UNSET", description |-> "", events |-> <<>>, ended |-> 0]
\* tracer.start_span(fn_name) / tracer.start_as_current_span(fn_name)
StartSpan(name, recording) ==
    [NoSpan EXCEPT !.name = name, !.recording = recording]
\* span.set_attribute(key, value)
SetAttribute(sp, key, value) ==
    IF sp.recording THEN [sp EXCEPT ![key] = value] ELSE sp
\* span.set_status(Status(code, description))
SetStatus(sp, code, description) ==
    IF sp.recording
    THEN [sp EXCEPT !.status = code, !.description = description]
    ELSE sp
\* span.record_exception(error)
RecordException(sp, error) ==
    IF sp.recording THEN [sp EXCEPT !.events = Append(@, error)] ELSE sp
\* span.end()
EndSpan(sp) == [sp EXCEPT !.ended = @ + 1]

\* fn_name = name or fn.__name__ or "_"
SpanName(name, fn_name) ==
    IF name # NoName /\ name # "" THEN name
    ELSE IF fn_name # "" THEN fn_name
    ELSE "_"

\* _setup_span: the input attribute is set on a recording span
SetupSpan(sp, input_data) ==
    IF ~sp.recording THEN sp
    ELSE IF input_data # NoneValue
         THEN SetAttribute(sp, "input", SerializeForSpan(input_data))
         ELSE sp

\* an exception handler that records the event and leaves the status alone
HandleSpanExceptionNoStatus(sp, exception) ==
    RecordException(sp, exception)

\* _handle_span_exception
HandleSpanException(sp, exception) ==
    LET error == IF IsException(exception) THEN exception
                 ELSE Exc("Exception", exception.msg)
    IN  SetStatus(RecordException(sp, error), "ERROR", error.msg)

\* a finalizer that attaches the result as it is
FinalizeSpanSuccessRaw(sp, result_value, filter_output, ignore_output) ==
    SetStatus(SetAttribute(sp, "output", result_value), "OK", "")

\* _finalize_span_success of the decorator
FinalizeSpanSuccess(sp, result_value, filter_output, ignore_output) ==
    SetStatus(
        SetAttribute(sp, "output",
            SerializeForSpan(
                PrepareAndFilterOutput(result_value, filter_output, ignore_output))),
        "OK", "")

\* min(a, b)
Min(a, b) == IF a <= b THEN a ELSE b

\* the keys the summary of a generator can have
SummaryKeys == {"type", "yielded_count", "sample_values", "truncated"}

\* a summary that never says that samples were left out
SummaryNoTruncated(yielded, type) ==
    LET sample_size == Min(SampleLimit, Len(yielded))
        keys == {"type", "yielded_count"}
                \cup (IF yielded # <<>> THEN {"sample_values"} ELSE {})
    IN  Dict([k \in keys |->
                CASE k = "type" -> type
                  [] k = "yielded_count" -> Len(yielded)
                  [] k = "sample_values" ->
                        [i \in 1..sample_size |-> SerializeForSpan(yielded[i])]])

\* output_data of TracedGenerator._finalize_span_success and of
\* TracedAsyncGenerator._finalize_span_success
Summary(yielded, type) ==
    LET sample_size == Min(SampleLimit, Len(yielded))
        keys == {"type", "yielded_count"}
                \cup (IF yielded # <<>> THEN {"sample_values"} ELSE {})
                \cup (IF yielded # <<>> /\ Len(yielded) > sample_size
                      THEN {"truncated"} ELSE {})
    IN  Dict([k \in keys |->
                CASE k = "type" -> type
                  [] k = "yielded_count" -> Len(yielded)
                  [] k = "sample_values" ->
                        [i \in 1..sample_size |-> SerializeForSpan(yielded[i])]
                  [] k = "truncated" -> TRUE])

\* _finalize_span_success of the traced generators
FinalizeGeneratorSuccess(sp, yielded, type, filter_output, ignore_output) ==
    SetStatus(
        SetAttribute(sp, "output",
            SerializeForSpan(
                PrepareAndFilterOutput(Summary(yielded, type),
                                       filter_output, ignore_output))),
        "OK", "")

(* functions *)
\* no function has been defined
NoUnit ==
    [shape |-> "none", fn_name |-> "", is_traced |-> FALSE, layers |-> 0,
     name |-> NoName, span_name |-> "", filter_output |-> "none",
     ignore_output |-> {}]
\* a function as written: def fn / async def fn, with or without yield
RawUnit(shape) == [NoUnit EXCEPT !.shape = shape, !.fn_name = "fn"]
RawUnits == {RawUnit(shape) : shape \in Shapes}

\* a decorator that wraps whatever it is given
DecoratorNoCheck(fn, name, filter_output, ignore_output) ==
    [fn EXCEPT !.is_traced = TRUE, !.layers = @ + 1, !.name = name,
               !.span_name = SpanName(name, fn.fn_name),
               !.filter_output = filter_output,
               !.ignore_output = ignore_output]

\* decorator(fn): a function that has _is_traced is returned as it is;
\* functools.wraps keeps fn.__name__ on the wrapper
Decorator(fn, name, filter_output, ignore_output) ==
    IF fn.is_traced THEN fn
    ELSE [fn EXCEPT !.is_traced = TRUE, !.layers = @ + 1, !.name = name,
                    !.span_name = SpanName(name, fn.fn_name),
                    !.filter_output = filter_output,
                    !.ignore_output = ignore_output]

\* what a generator yields: its i-th item
ItemKinds == {"prim", "dict"}
Item(i, item_kind) == IF item_kind = "prim" THEN Prim(i) ELSE Dict([a |-> Prim(i)])

\* a generator object that has not been started
NewGenerator(item_kind) ==
    [item_kind |-> item_kind, produced |-> 0, done |-> FALSE, ending |-> NoOutcome]
\* no generator object
NoGenerator == NewGenerator("prim")

\* what next(generator) can do: yield another item, return, or raise
NextChoices == {"yield", "stop", "Exception", "BaseException"}

\* how next(g) ends for the choice the generator's body makes; a generator
\* that has finished raises StopIteration
UnderlyingNext(g, choice) ==
    IF g.done \/ choice = "stop" THEN Stopped
    ELSE IF choice = "yield"
         THEN Outcome("item", Item(g.produced + 1, g.item_kind), NoExc)
         ELSE Raised(Exc(choice, "failed"))

\* the generator object after that next(g)
AfterNext(g, o) ==
    IF g.done THEN g
    ELSE IF o.kind = "item" THEN [g EXCEPT !.produced = @ + 1]
    ELSE [g EXCEPT !.done = TRUE, !.ending = o]

(* ------------------------------------------------------------------ Init *)

Init ==
    /\ buffer = <<>>
    /\ buffer_span_keys = {}
    /\ flush_lock = Free
    /\ shutdown_requested = FALSE
    /\ server_url \in BOOLEAN
    /\ pc = [t \in Threads |-> IF t = Worker THEN "w_check" ELSE "idle"]
    /\ spans_to_flush = [t \in Threads |-> <<>>]
    /\ outcome = [t \in Threads |-> "none"]
    /\ result = [t \in Threads |-> "none"]
    /\ sends = [t \in Threads |-> 0]
    /\ admitted = <<>>
    /\ timesSent = [i \in Ids |-> 0]
    /\ restored = <<>>
    /\ duplicates_count = 0
    /\ duplicate_unbuffered = FALSE
    /\ sender = [t \in Threads |-> "none"]
    /\ extracts = [t \in Threads |-> 0]
    /\ slept = FALSE
    /\ admitted_at_extract = 0
    /\ failed_inflight = {}
    /\ quiet = "no"
    /\ unit = NoUnit
    /\ rewraps = 0
    /\ w_pc = "idle"
    /\ span = NoSpan
    /\ spans_started = 0
    /\ attached = 0
    /\ detached = 0
    /\ executed = 0
    /\ unit_did = NoOutcome
    /\ caller = NoOutcome
    /\ generator = NoGenerator
    /\ yielded_values = <<>>
    /\ exhausted = FALSE
    /\ delivered = <<>>
    /\ late_nexts = 0
    /\ locks = [buffer_lock |-> Free, flush_lock |-> Free]
    /\ lk_pc = [t \in {"p", "q", Worker, Flusher, Stopper} |-> "idle"]
    /\ cached = FALSE
    /\ tracer_provider = "proxy"
    /\ c_pc = [t \in {"t1", "t2"} |-> "idle"]
    /\ c_result = [t \in {"t1", "t2"} |-> "none"]
    /\ provider = [t \in {"t1", "t2"} |-> "none"]
    /\ span_processors = [p \in {"app", "t1", "t2"} |-> {}]
    /\ exporters = {}
    /\ client = [provider |-> "none", exporter |-> "none"]
    /\ current_span = 0
    /\ context_token = [g \in 1..MaxGenerators |-> -1]
    /\ g_pc = [g \in 1..MaxGenerators |-> "new"]
    /\ g_yielded = [g \in 1..MaxGenerators |-> 0]

(* ---------------------------------------------------------------- export *)

\* export(spans) for a non-empty list: one buffer_lock block
Export(spans) ==
    LET r == ExportLoop(spans, buffer_span_keys, <<>>, Len(admitted), 0) IN
    /\ FirstUseOrder(spans, MaxKey({admitted[i] : i \in 1..Len(admitted)}))
    /\ Len(admitted) + Len(r.serialized_spans) <= MaxAdmit
    /\ buffer' = buffer \o r.serialized_spans
    /\ buffer_span_keys' = r.keys
    /\ admitted' = admitted \o [i \in 1..Len(r.serialized_spans) |->
                                   r.serialized_spans[i].key]
    /\ duplicates_count' = r.duplicates_count
    /\ duplicate_unbuffered' =
           (\E i \in 1..Len(spans) :
               spans[i] \in buffer_span_keys \ KeysOf(buffer))
    /\ quiet' = IF r.serialized_spans = <<>> THEN quiet ELSE "no"
    /\ UNCHANGED <<flush_lock, shutdown_requested, server_url, pc,
                   spans_to_flush, outcome, result, sends, timesSent,
                   restored,
                   sender, extracts,
                   slept, admitted_at_extract, failed_inflight>>
    /\ UNCHANGED <<wvars, lvars, cvars, xvars>>

(* ----------------------------------------------------------------- flush *)

\* flush() is called by the explicit caller, or by a second coroutine of its
\* event loop while the first is suspended in its send (a second coroutine
\* that runs when the first is not in flush() is the explicit caller again)
FlushCall(t) ==
    /\ t \in {Flusher, Flusher2}
    /\ pc[t] = "idle"
    /\ LoopFree(t)
    /\ t = Flusher2 => pc[Flusher] = "send"
    /\ pc' = [pc EXCEPT ![t] = "acquire"]
    /\ outcome' = [outcome EXCEPT ![t] = "none"]
    /\ result' = [result EXCEPT ![t] = "none"]
    /\ sends' = [sends EXCEPT ![t] = 0]
    /\ sender' = [sender EXCEPT ![t] = "none"]
    /\ extracts' = [extracts EXCEPT ![t] = 0]
    /\ UNCHANGED <<buffer, buffer_span_keys, flush_lock, shutdown_requested,
                   server_url, spans_to_flush, admitted, timesSent, restored,
                   duplicates_count,
                   duplicate_unbuffered,
                   slept, admitted_at_extract, failed_inflight, quiet>>
    /\ UNCHANGED <<wvars, lvars, cvars, xvars>>

\* a flush() that enters its body without waiting for the flush lock
FlushAcquireNoLock(t) ==
    /\ pc[t] = "acquire"
    /\ flush_lock' = t
    /\ pc' = [pc EXCEPT ![t] = "extract"]
    /\ UNCHANGED <<buffer, buffer_span_keys, shutdown_requested, server_url,
                   spans_to_flush, outcome, result, sends, admitted, timesSent,
                   restored, duplicates_count,
                   duplicate_unbuffered, sender, extracts,
                   slept, admitted_at_extract, failed_inflight, quiet>>
    /\ UNCHANGED <<wvars, lvars, cvars, xvars>>

\* with self.flush_lock:
FlushAcquire(t) ==
    /\ pc[t] = "acquire"
    /\ flush_lock = Free
    /\ flush_lock' = t
    /\ pc' = [pc EXCEPT ![t] = "extract"]
    /\ UNCHANGED <<buffer, buffer_span_keys, shutdown_requested, server_url,
                   spans_to_flush, outcome, result, sends, admitted,
                   timesSent, restored, duplicates_count,
                   duplicate_unbuffered, sender, extracts,
                   slept, admitted_at_extract, failed_inflight, quiet>>
    /\ UNCHANGED <<wvars, lvars, cvars, xvars>>

\* an extraction that also forgets the keys of what it took
FlushExtractClearKeys(t) ==
    LET x == ExtractAndRemove(buffer) IN
    /\ pc[t] = "extract"
    /\ spans_to_flush' = [spans_to_flush EXCEPT ![t] = x.spans]
    /\ buffer' = x.buffer
    /\ buffer_span_keys' = buffer_span_keys \ KeysOf(x.spans)
    /\ restored' = <<>>
    /\ pc' = [pc EXCEPT ![t] = "extracted"]
    /\ extracts' = [extracts EXCEPT ![t] = @ + 1]
    /\ UNCHANGED <<flush_lock, shutdown_requested, server_url, outcome,
                   result, sends, admitted, timesSent, duplicates_count,
                   duplicate_unbuffered, sender,
                   slept, admitted_at_extract, failed_inflight, quiet>>
    /\ UNCHANGED <<wvars, lvars, cvars, xvars>>

\* spans_to_flush = self._extract_and_remove_spans_from_buffer()
FlushExtract(t) ==
    LET x == ExtractAndRemove(buffer) IN
    /\ pc[t] = "extract"
    /\ spans_to_flush' = [spans_to_flush EXCEPT ![t] = x.spans]
    /\ buffer' = x.buffer
    /\ restored' = <<>>
    /\ pc' = [pc EXCEPT ![t] = "extracted"]
    /\ extracts' = [extracts EXCEPT ![t] = @ + 1]
    /\ UNCHANGED <<buffer_span_keys, flush_lock, shutdown_requested,
                   server_url, outcome, result, sends, admitted, timesSent,
                   duplicates_count,
                   duplicate_unbuffered, sender,
                   slept, admitted_at_extract, failed_inflight, quiet>>
    /\ UNCHANGED <<wvars, lvars, cvars, xvars>>

\* an empty flush() that calls _clear_buffer() before it returns
FlushEmptyClearAll(t) ==
    /\ pc[t] = "extracted"
    /\ spans_to_flush[t] = <<>>
    /\ buffer' = <<>>
    /\ buffer_span_keys' = {}
    /\ flush_lock' = Free
    /\ result' = [result EXCEPT ![t] = "returned"]
    /\ pc' = [pc EXCEPT ![t] = ReturnSite(t)]
    /\ spans_to_flush' = [spans_to_flush EXCEPT ![t] = <<>>]
    /\ restored' = <<>>
    /\ UNCHANGED <<shutdown_requested, server_url, outcome, sends, admitted,
                   timesSent, duplicates_count,
                   duplicate_unbuffered, sender, extracts,
                   slept, admitted_at_extract, failed_inflight, quiet>>
    /\ UNCHANGED <<wvars, lvars, cvars, xvars>>

\* if not spans_to_flush: return
FlushEmpty(t) ==
    /\ pc[t] = "extracted"
    /\ spans_to_flush[t] = <<>>
    /\ flush_lock' = Free
    /\ result' = [result EXCEPT ![t] = "returned"]
    /\ pc' = [pc EXCEPT ![t] = ReturnSite(t)]
    /\ spans_to_flush' = [spans_to_flush EXCEPT ![t] = <<>>]
    /\ restored' = <<>>
    /\ UNCHANGED <<buffer, buffer_span_keys, shutdown_requested, server_url,
                   outcome, sends, admitted, timesSent, duplicates_count,
                   duplicate_unbuffered, sender, extracts,
                   slept, admitted_at_extract, failed_inflight, quiet>>
    /\ UNCHANGED <<wvars, lvars, cvars, xvars>>

\* if not self.server_url: drop the batch, release its keys, return
FlushDrop(t) ==
    /\ pc[t] = "extracted"
    /\ spans_to_flush[t] # <<>>
    /\ ~server_url
    /\ buffer_span_keys' = RemoveSpanKeys(buffer_span_keys, spans_to_flush[t])
    /\ flush_lock' = Free
    /\ result' = [result EXCEPT ![t] = "returned"]
    /\ pc' = [pc EXCEPT ![t] = ReturnSite(t)]
    /\ spans_to_flush' = [spans_to_flush EXCEPT ![t] = <<>>]
    /\ restored' = <<>>
    /\ UNCHANGED <<buffer, shutdown_requested, server_url, outcome, sends,
                   admitted, timesSent, duplicates_count,
                   duplicate_unbuffered, sender, extracts,
                   slept, admitted_at_extract, failed_inflight, quiet>>
    /\ UNCHANGED <<wvars, lvars, cvars, xvars>>

\* await self._send_spans(spans_to_flush): the request goes out
FlushSendStart(t) ==
    /\ pc[t] = "extracted"
    /\ spans_to_flush[t] # <<>>
    /\ server_url
    /\ sends' = [sends EXCEPT ![t] = @ + 1]
    /\ pc' = [pc EXCEPT ![t] = "send"]
    /\ sender' = [sender EXCEPT ![t] = "async"]
    /\ UNCHANGED <<buffer, buffer_span_keys, flush_lock, shutdown_requested,
                   server_url, spans_to_flush, outcome, result, admitted,
                   timesSent, restored, duplicates_count,
                   duplicate_unbuffered, extracts,
                   slept, admitted_at_extract, failed_inflight, quiet>>
    /\ UNCHANGED <<wvars, lvars, cvars, xvars>>

\* the awaited send ends with outcome o and the event loop resumes flush()
FlushSendComplete(t, o) ==
    /\ pc[t] = "send"
    /\ LoopFree(t)
    /\ outcome' = [outcome EXCEPT ![t] = o]
    /\ timesSent' = [i \in Ids |->
                        IF o = "ok" /\ i \in IdsOf(spans_to_flush[t])
                        THEN timesSent[i] + 1 ELSE timesSent[i]]
    /\ pc' = [pc EXCEPT ![t] = "sent"]
    /\ UNCHANGED <<buffer, buffer_span_keys, flush_lock, shutdown_requested,
                   server_url, spans_to_flush, result, sends, admitted,
                   restored, duplicates_count,
                   duplicate_unbuffered, sender, extracts,
                   slept, admitted_at_extract, failed_inflight, quiet>>
    /\ UNCHANGED <<wvars, lvars, cvars, xvars>>

\* after a successful send: release the keys of the batch, return
FlushOnSuccess(t) ==
    /\ pc[t] = "sent"
    /\ outcome[t] = "ok"
    /\ buffer_span_keys' = RemoveSpanKeys(buffer_span_keys, spans_to_flush[t])
    /\ flush_lock' = Free
    /\ result' = [result EXCEPT ![t] = "returned"]
    /\ pc' = [pc EXCEPT ![t] = ReturnSite(t)]
    /\ spans_to_flush' = [spans_to_flush EXCEPT ![t] = <<>>]
    /\ outcome' = [outcome EXCEPT ![t] = "none"]
    /\ restored' = <<>>
    /\ UNCHANGED <<buffer, shutdown_requested, server_url, sends, admitted,
                   timesSent, duplicates_count,
                   duplicate_unbuffered, sender, extracts,
                   slept, admitted_at_extract, failed_inflight, quiet>>
    /\ UNCHANGED <<wvars, lvars, cvars, xvars>>

\* except clauses that release the keys of the batch they put back
FlushOnFailureReleaseKeys(t) ==
    LET buf == PrependSpans(buffer, spans_to_flush[t]) IN
    /\ pc[t] = "sent"
    /\ outcome[t] # "ok"
    /\ buffer' = buf
    /\ buffer_span_keys' = RemoveSpanKeys(buffer_span_keys, spans_to_flush[t])
    /\ restored' = spans_to_flush[t]
    /\ flush_lock' = Free
    /\ result' = [result EXCEPT ![t] =
                     IF FlushRaises(outcome[t], shutdown_requested)
                     THEN "raised" ELSE "returned"]
    /\ pc' = [pc EXCEPT ![t] = ReturnSite(t)]
    /\ spans_to_flush' = [spans_to_flush EXCEPT ![t] = <<>>]
    /\ outcome' = [outcome EXCEPT ![t] = "none"]
    /\ failed_inflight' = IF t = Worker /\ pc[Stopper] \in {"s_join", "s_acquire"}
                          THEN IdsOf(spans_to_flush[t]) ELSE failed_inflight
    /\ UNCHANGED <<shutdown_requested, server_url, sends, admitted, timesSent,
                   duplicates_count,
                   duplicate_unbuffered, sender, extracts,
                   slept, admitted_at_extract, quiet>>
    /\ UNCHANGED <<wvars, lvars, cvars, xvars>>

\* the except clauses: put the batch back, then raise or return
FlushOnFailure(t) ==
    LET buf == PrependSpans(buffer, spans_to_flush[t]) IN
    /\ pc[t] = "sent"
    /\ outcome[t] # "ok"
    /\ buffer' = buf
    /\ buffer_span_keys' = RebuildKeys(buf)
    /\ restored' = spans_to_flush[t]
    /\ flush_lock' = Free
    /\ result' = [result EXCEPT ![t] =
                     IF FlushRaises(outcome[t], shutdown_requested)
                     THEN "raised" ELSE "returned"]
    /\ pc' = [pc EXCEPT ![t] = ReturnSite(t)]
    /\ spans_to_flush' = [spans_to_flush EXCEPT ![t] = <<>>]
    /\ outcome' = [outcome EXCEPT ![t] = "none"]
    /\ failed_inflight' = IF t = Worker /\ pc[Stopper] \in {"s_join", "s_acquire"}
                          THEN IdsOf(spans_to_flush[t]) ELSE failed_inflight
    /\ UNCHANGED <<shutdown_requested, server_url, sends, admitted, timesSent,
                   duplicates_count,
                   duplicate_unbuffered, sender, extracts,
                   slept, admitted_at_extract, quiet>>
    /\ UNCHANGED <<wvars, lvars, cvars, xvars>>

(* ----------------------------------------------------- auto-flush worker *)

\* a worker loop that does not test the flag
WorkerCycleIgnoreFlag ==
    /\ pc[Worker] = "w_check"
    /\ pc' = [pc EXCEPT ![Worker] = "acquire"]
    /\ outcome' = [outcome EXCEPT ![Worker] = "none"]
    /\ result' = [result EXCEPT ![Worker] = "none"]
    /\ sends' = [sends EXCEPT ![Worker] = 0]
    /\ sender' = [sender EXCEPT ![Worker] = "none"]
    /\ extracts' = [extracts EXCEPT ![Worker] = 0]
    /\ slept' = FALSE
    /\ UNCHANGED <<buffer, buffer_span_keys, flush_lock, shutdown_requested,
                   server_url, spans_to_flush, admitted, timesSent, restored,
                   duplicates_count,
                   duplicate_unbuffered,
                   admitted_at_extract, failed_inflight, quiet>>
    /\ UNCHANGED <<wvars, lvars, cvars, xvars>>

\* while not self.shutdown_requested: ... loop.run_until_complete(self.flush())
WorkerCycle ==
    /\ pc[Worker] = "w_check"
    /\ ~shutdown_requested
    /\ pc' = [pc EXCEPT ![Worker] = "acquire"]
    /\ outcome' = [outcome EXCEPT ![Worker] = "none"]
    /\ result' = [result EXCEPT ![Worker] = "none"]
    /\ sends' = [sends EXCEPT ![Worker] = 0]
    /\ sender' = [sender EXCEPT ![Worker] = "none"]
    /\ extracts' = [extracts EXCEPT ![Worker] = 0]
    /\ slept' = FALSE
    /\ UNCHANGED <<buffer, buffer_span_keys, flush_lock, shutdown_requested,
                   server_url, spans_to_flush, admitted, timesSent, restored,
                   duplicates_count,
                   duplicate_unbuffered,
                   admitted_at_extract, failed_inflight, quiet>>
    /\ UNCHANGED <<wvars, lvars, cvars, xvars>>

\* the loop condition fails: the worker stops without a flush of its own
WorkerStop ==
    /\ pc[Worker] = "w_check"
    /\ shutdown_requested
    /\ pc' = [pc EXCEPT ![Worker] = "w_stopped"]
    /\ slept' = FALSE
    /\ UNCHANGED <<buffer, buffer_span_keys, flush_lock, shutdown_requested,
                   server_url, spans_to_flush, outcome, result, sends,
                   admitted, timesSent, restored, duplicates_count,
                   duplicate_unbuffered, sender, extracts,
                   admitted_at_extract, failed_inflight, quiet>>
    /\ UNCHANGED <<wvars, lvars, cvars, xvars>>

\* a worker whose loop ends when a cycle's flush() raised
WorkerSleepStopOnError ==
    /\ pc[Worker] = "w_sleep"
    /\ pc' = [pc EXCEPT ![Worker] = IF result[Worker] = "raised"
                                    THEN "w_stopped" ELSE "w_check"]
    /\ outcome' = [outcome EXCEPT ![Worker] = "none"]
    /\ result' = [result EXCEPT ![Worker] = "none"]
    /\ sends' = [sends EXCEPT ![Worker] = 0]
    /\ sender' = [sender EXCEPT ![Worker] = "none"]
    /\ extracts' = [extracts EXCEPT ![Worker] = 0]
    /\ slept' = TRUE
    /\ UNCHANGED <<buffer, buffer_span_keys, flush_lock, shutdown_requested,
                   server_url, spans_to_flush, admitted, timesSent, restored,
                   duplicates_count,
                   duplicate_unbuffered,
                   admitted_at_extract, failed_inflight, quiet>>
    /\ UNCHANGED <<wvars, lvars, cvars, xvars>>

\* time.sleep(self.flush_interval_ms / 1000.0), after a cycle that returned
\* and after one whose exception was caught alike; the cycle is over and
\* nothing of its flush() call is kept
WorkerSleep ==
    /\ pc[Worker] = "w_sleep"
    /\ pc' = [pc EXCEPT ![Worker] = "w_check"]
    /\ outcome' = [outcome EXCEPT ![Worker] = "none"]
    /\ result' = [result EXCEPT ![Worker] = "none"]
    /\ sends' = [sends EXCEPT ![Worker] = 0]
    /\ sender' = [sender EXCEPT ![Worker] = "none"]
    /\ extracts' = [extracts EXCEPT ![Worker] = 0]
    /\ slept' = TRUE
    /\ UNCHANGED <<buffer, buffer_span_keys, flush_lock, shutdown_requested,
                   server_url, spans_to_flush, admitted, timesSent, restored,
                   duplicates_count,
                   duplicate_unbuffered,
                   admitted_at_extract, failed_inflight, quiet>>
    /\ UNCHANGED <<wvars, lvars, cvars, xvars>>

(* -------------------------------------------------------------- shutdown *)

\* shutdown() is called: self.shutdown_requested = True
ShutdownCall ==
    /\ pc[Stopper] = "idle"
    /\ shutdown_requested' = TRUE
    /\ pc' = [pc EXCEPT ![Stopper] = "s_join"]
    /\ outcome' = [outcome EXCEPT ![Stopper] = "none"]
    /\ result' = [result EXCEPT ![Stopper] = "none"]
    /\ sends' = [sends EXCEPT ![Stopper] = 0]
    /\ sender' = [sender EXCEPT ![Stopper] = "none"]
    /\ extracts' = [extracts EXCEPT ![Stopper] = 0]
    /\ quiet' = IF quiet = "first" THEN "again" ELSE quiet
    /\ UNCHANGED <<buffer, buffer_span_keys, flush_lock, server_url,
                   spans_to_flush, admitted, timesSent, restored,
                   duplicates_count,
                   duplicate_unbuffered,
                   slept, admitted_at_extract, failed_inflight>>
    /\ UNCHANGED <<wvars, lvars, cvars, xvars>>

\* self.flush_timer.join(timeout=10.0) returns because the worker has stopped
\* (or there is no live worker to wait for)
ShutdownJoined ==
    /\ pc[Stopper] = "s_join"
    /\ pc[Worker] = "w_stopped"
    /\ pc' = [pc EXCEPT ![Stopper] = "s_acquire"]
    /\ UNCHANGED <<buffer, buffer_span_keys, flush_lock, shutdown_requested,
                   server_url, spans_to_flush, outcome, result, sends,
                   admitted, timesSent, restored, duplicates_count,
                   duplicate_unbuffered, sender, extracts,
                   slept, admitted_at_extract, failed_inflight, quiet>>
    /\ UNCHANGED <<wvars, lvars, cvars, xvars>>

\* the join times out with the worker still alive
ShutdownJoinTimeout ==
    /\ pc[Stopper] = "s_join"
    /\ pc[Worker] # "w_stopped"
    /\ pc' = [pc EXCEPT ![Stopper] = "s_acquire"]
    /\ UNCHANGED <<buffer, buffer_span_keys, flush_lock, shutdown_requested,
                   server_url, spans_to_flush, outcome, result, sends,
                   admitted, timesSent, restored, duplicates_count,
                   duplicate_unbuffered, sender, extracts,
                   slept, admitted_at_extract, failed_inflight, quiet>>
    /\ UNCHANGED <<wvars, lvars, cvars, xvars>>

\* a shutdown() that starts its final pass without waiting for the flush lock
ShutdownAcquireNoLock ==
    /\ pc[Stopper] = "s_acquire"
    /\ flush_lock' = Stopper
    /\ pc' = [pc EXCEPT ![Stopper] = "s_extract"]
    /\ UNCHANGED <<buffer, buffer_span_keys, shutdown_requested, server_url,
                   spans_to_flush, outcome, result, sends, admitted,
                   timesSent, restored, duplicates_count,
                   duplicate_unbuffered, sender, extracts,
                   slept, admitted_at_extract, failed_inflight, quiet>>
    /\ UNCHANGED <<wvars, lvars, cvars, xvars>>

\* with self.flush_lock:
ShutdownAcquire ==
    /\ pc[Stopper] = "s_acquire"
    /\ flush_lock = Free
    /\ flush_lock' = Stopper
    /\ pc' = [pc EXCEPT ![Stopper] = "s_extract"]
    /\ UNCHANGED <<buffer, buffer_span_keys, shutdown_requested, server_url,
                   spans_to_flush, outcome, result, sends, admitted,
                   timesSent, restored, duplicates_count,
                   duplicate_unbuffered, sender, extracts,
                   slept, admitted_at_extract, failed_inflight, quiet>>
    /\ UNCHANGED <<wvars, lvars, cvars, xvars>>

\* spans_to_flush = self._extract_and_remove_spans_from_buffer()
ShutdownExtract ==
    LET x == ExtractAndRemove(buffer) IN
    /\ pc[Stopper] = "s_extract"
    /\ spans_to_flush' = [spans_to_flush EXCEPT ![Stopper] = x.spans]
    /\ buffer' = x.buffer
    /\ restored' = <<>>
    /\ pc' = [pc EXCEPT ![Stopper] = "s_extracted"]
    /\ extracts' = [extracts EXCEPT ![Stopper] = @ + 1]
    /\ admitted_at_extract' = Len(admitted)
    /\ quiet' = IF quiet = "no" THEN "first" ELSE quiet
    /\ UNCHANGED <<buffer_span_keys, flush_lock, shutdown_requested,
                   server_url, outcome, result, sends, admitted, timesSent,
                   duplicates_count,
                   duplicate_unbuffered, sender,
                   slept, failed_inflight>>
    /\ UNCHANGED <<wvars, lvars, cvars, xvars>>

\* a final pass that, finding nothing to send, forgets every tracked key
ShutdownEmptyClearAll ==
    /\ pc[Stopper] = "s_extracted"
    /\ spans_to_flush[Stopper] = <<>>
    /\ buffer_span_keys' = {}
    /\ flush_lock' = Free
    /\ result' = [result EXCEPT ![Stopper] = "returned"]
    /\ pc' = [pc EXCEPT ![Stopper] = "idle"]
    /\ spans_to_flush' = [spans_to_flush EXCEPT ![Stopper] = <<>>]
    /\ restored' = <<>>
    /\ admitted_at_extract' = 0
    /\ failed_inflight' = {}
    /\ quiet' = IF quiet = "again" THEN "first" ELSE quiet
    /\ UNCHANGED <<buffer, shutdown_requested, server_url,
                   outcome, sends, admitted, timesSent, duplicates_count,
                   duplicate_unbuffered, sender, extracts,
                   slept>>
    /\ UNCHANGED <<wvars, lvars, cvars, xvars>>

\* else: "no spans to flush"
ShutdownEmpty ==
    /\ pc[Stopper] = "s_extracted"
    /\ spans_to_flush[Stopper] = <<>>
    /\ flush_lock' = Free
    /\ result' = [result EXCEPT ![Stopper] = "returned"]
    /\ pc' = [pc EXCEPT ![Stopper] = "idle"]
    /\ spans_to_flush' = [spans_to_flush EXCEPT ![Stopper] = <<>>]
    /\ restored' = <<>>
    /\ admitted_at_extract' = 0
    /\ failed_inflight' = {}
    /\ quiet' = IF quiet = "again" THEN "first" ELSE quiet
    /\ UNCHANGED <<buffer, buffer_span_keys, shutdown_requested, server_url,
                   outcome, sends, admitted, timesSent, duplicates_count,
                   duplicate_unbuffered, sender, extracts,
                   slept>>
    /\ UNCHANGED <<wvars, lvars, cvars, xvars>>

\* if not self.server_url: release the keys of the batch, send nothing
ShutdownDrop ==
    /\ pc[Stopper] = "s_extracted"
    /\ spans_to_flush[Stopper] # <<>>
    /\ ~server_url
    /\ buffer_span_keys' = RemoveSpanKeys(buffer_span_keys, spans_to_flush[Stopper])
    /\ flush_lock' = Free
    /\ result' = [result EXCEPT ![Stopper] = "returned"]
    /\ pc' = [pc EXCEPT ![Stopper] = "idle"]
    /\ spans_to_flush' = [spans_to_flush EXCEPT ![Stopper] = <<>>]
    /\ restored' = <<>>
    /\ admitted_at_extract' = 0
    /\ failed_inflight' = {}
    /\ quiet' = IF quiet = "again" THEN "first" ELSE quiet
    /\ UNCHANGED <<buffer, shutdown_requested, server_url, outcome, sends,
                   admitted, timesSent, duplicates_count,
                   duplicate_unbuffered, sender, extracts,
                   slept>>
    /\ UNCHANGED <<wvars, lvars, cvars, xvars>>

\* a final pass that hands its batch to the async sender
ShutdownSendStartAsync ==
    /\ pc[Stopper] = "s_extracted"
    /\ spans_to_flush[Stopper] # <<>>
    /\ server_url
    /\ sends' = [sends EXCEPT ![Stopper] = @ + 1]
    /\ sender' = [sender EXCEPT ![Stopper] = "async"]
    /\ pc' = [pc EXCEPT ![Stopper] = "s_send"]
    /\ UNCHANGED <<buffer, buffer_span_keys, flush_lock, shutdown_requested,
                   server_url, spans_to_flush, outcome, result, admitted,
                   timesSent, restored, duplicates_count,
                   duplicate_unbuffered, extracts,
                   slept, admitted_at_extract, failed_inflight, quiet>>
    /\ UNCHANGED <<wvars, lvars, cvars, xvars>>

\* self._send_spans_sync(spans_to_flush): the request goes out
ShutdownSendStart ==
    /\ pc[Stopper] = "s_extracted"
    /\ spans_to_flush[Stopper] # <<>>
    /\ server_url
    /\ sends' = [sends EXCEPT ![Stopper] = @ + 1]
    /\ pc' = [pc EXCEPT ![Stopper] = "s_send"]
    /\ sender' = [sender EXCEPT ![Stopper] = "sync"]
    /\ UNCHANGED <<buffer, buffer_span_keys, flush_lock, shutdown_requested,
                   server_url, spans_to_flush, outcome, result, admitted,
                   timesSent, restored, duplicates_count,
                   duplicate_unbuffered, extracts,
                   slept, admitted_at_extract, failed_inflight, quiet>>
    /\ UNCHANGED <<wvars, lvars, cvars, xvars>>

\* the blocking send ends with outcome o
ShutdownSendComplete(o) ==
    /\ pc[Stopper] = "s_send"
    /\ outcome' = [outcome EXCEPT ![Stopper] = o]
    /\ timesSent' = [i \in Ids |->
                        IF o = "ok" /\ i \in IdsOf(spans_to_flush[Stopper])
                        THEN timesSent[i] + 1 ELSE timesSent[i]]
    /\ pc' = [pc EXCEPT ![Stopper] = "s_sent"]
    /\ UNCHANGED <<buffer, buffer_span_keys, flush_lock, shutdown_requested,
                   server_url, spans_to_flush, result, sends, admitted,
                   restored, duplicates_count,
                   duplicate_unbuffered, sender, extracts,
                   slept, admitted_at_extract, failed_inflight, quiet>>
    /\ UNCHANGED <<wvars, lvars, cvars, xvars>>

\* after a successful blocking send: release the keys of the batch
ShutdownOnSuccess ==
    /\ pc[Stopper] = "s_sent"
    /\ outcome[Stopper] = "ok"
    /\ buffer_span_keys' = RemoveSpanKeys(buffer_span_keys, spans_to_flush[Stopper])
    /\ flush_lock' = Free
    /\ result' = [result EXCEPT ![Stopper] = "returned"]
    /\ pc' = [pc EXCEPT ![Stopper] = "idle"]
    /\ spans_to_flush' = [spans_to_flush EXCEPT ![Stopper] = <<>>]
    /\ outcome' = [outcome EXCEPT ![Stopper] = "none"]
    /\ restored' = <<>>
    /\ admitted_at_extract' = 0
    /\ failed_inflight' = {}
    /\ quiet' = IF quiet = "again" THEN "first" ELSE quiet
    /\ UNCHANGED <<buffer, shutdown_requested, server_url, sends, admitted,
                   timesSent, duplicates_count,
                   duplicate_unbuffered, sender, extracts,
                   slept>>
    /\ UNCHANGED <<wvars, lvars, cvars, xvars>>

\* a final pass that puts its batch back when its send has failed
ShutdownOnFailureRestore ==
    LET buf == PrependSpans(buffer, spans_to_flush[Stopper]) IN
    /\ pc[Stopper] = "s_sent"
    /\ outcome[Stopper] # "ok"
    /\ buffer' = buf
    /\ buffer_span_keys' = RebuildKeys(buf)
    /\ flush_lock' = Free
    /\ result' = [result EXCEPT ![Stopper] = "returned"]
    /\ pc' = [pc EXCEPT ![Stopper] = "idle"]
    /\ spans_to_flush' = [spans_to_flush EXCEPT ![Stopper] = <<>>]
    /\ outcome' = [outcome EXCEPT ![Stopper] = "none"]
    /\ restored' = <<>>
    /\ admitted_at_extract' = 0
    /\ failed_inflight' = {}
    /\ quiet' = IF quiet = "again" THEN "first" ELSE quiet
    /\ UNCHANGED <<shutdown_requested, server_url,
                   sends, admitted, timesSent, duplicates_count,
                   duplicate_unbuffered, sender, extracts,
                   slept>>
    /\ UNCHANGED <<wvars, lvars, cvars, xvars>>

\* except Exception: the batch is logged as not sent; nothing is put back,
\* its keys stay in the tracking set
ShutdownOnFailure ==
    /\ pc[Stopper] = "s_sent"
    /\ outcome[Stopper] # "ok"
    /\ flush_lock' = Free
    /\ result' = [result EXCEPT ![Stopper] = "returned"]
    /\ pc' = [pc EXCEPT ![Stopper] = "idle"]
    /\ spans_to_flush' = [spans_to_flush EXCEPT ![Stopper] = <<>>]
    /\ outcome' = [outcome EXCEPT ![Stopper] = "none"]
    /\ restored' = <<>>
    /\ admitted_at_extract' = 0
    /\ failed_inflight' = {}
    /\ quiet' = IF quiet = "again" THEN "first" ELSE quiet
    /\ UNCHANGED <<buffer, buffer_span_keys, shutdown_requested, server_url,
                   sends, admitted, timesSent, duplicates_count,
                   duplicate_unbuffered, sender, extracts,
                   slept>>
    /\ UNCHANGED <<wvars, lvars, cvars, xvars>>

(* ------------------------------------------------------------ the system *)

Next ==
    \/ \E spans \in SpanLists : Export(spans)
    \/ \E t \in Flushers : FlushCall(t)
    \/ \E t \in Flushers : FlushAcquire(t)
    \/ \E t \in Flushers : FlushExtract(t)
    \/ \E t \in Flushers : FlushEmpty(t)
    \/ \E t \in Flushers : FlushDrop(t)
    \/ \E t \in Flushers : FlushSendStart(t)
    \/ \E t \in Flushers, o \in Outcomes : FlushSendComplete(t, o)
    \/ \E t \in Flushers : FlushOnSuccess(t)
    \/ \E t \in Flushers : FlushOnFailure(t)
    \/ WorkerCycle
    \/ WorkerStop
    \/ WorkerSleep
    \/ ShutdownCall
    \/ ShutdownJoined
    \/ ShutdownJoinTimeout
    \/ ShutdownAcquire
    \/ ShutdownExtract
    \/ ShutdownEmpty
    \/ ShutdownDrop
    \/ ShutdownSendStart
    \/ \E o \in SyncOutcomes : ShutdownSendComplete(o)
    \/ ShutdownOnSuccess
    \/ ShutdownOnFailure

Spec == Init /\ [][Next]_vars

(* A server address is configured and shutdown() is never called.  The      *)
(* threads keep running: the worker's loop and every flush() that was       *)
(* entered take their next step when it stays possible.  A send that is     *)
(* attempted again and again does not fail every time.                      *)
InitLive == Init /\ server_url

\* the steps of a flush() call that has been entered
PassStep(t) ==
    \/ FlushAcquire(t)
    \/ FlushExtract(t)
    \/ FlushEmpty(t)
    \/ FlushSendStart(t)
    \/ \E o \in Outcomes : FlushSendComplete(t, o)
    \/ FlushOnSuccess(t)
    \/ FlushOnFailure(t)

NextLive ==
    \/ \E spans \in SpanLists : Export(spans)
    \/ \E t \in FlushCallers : FlushCall(t)
    \/ \E t \in FlushCallers : PassStep(t)
    \/ WorkerCycle
    \/ WorkerSleep

LiveSpec ==
    /\ InitLive
    /\ [][NextLive]_vars
    /\ WF_vars(WorkerCycle)
    /\ WF_vars(WorkerSleep)
    /\ \A t \in FlushCallers : WF_vars(PassStep(t))
    /\ \A t \in FlushCallers : SF_vars(FlushSendComplete(t, "ok"))

(* Every thread keeps running: the worker's loop, every flush() that was    *)
(* entered and shutdown() take their next step when it stays possible, a    *)
(* send ends (both senders have a request timeout), and a shutdown() that   *)
(* waits for the flush lock gets it when the lock is free again and again.  *)
\* the steps of shutdown() after its call
StopperStep ==
    \/ ShutdownJoined
    \/ ShutdownJoinTimeout
    \/ ShutdownAcquire
    \/ ShutdownExtract
    \/ ShutdownEmpty
    \/ ShutdownDrop
    \/ ShutdownSendStart
    \/ \E o \in SyncOutcomes : ShutdownSendComplete(o)
    \/ ShutdownOnSuccess
    \/ ShutdownOnFailure

ShutdownLiveSpec ==
    /\ Init
    /\ [][Next]_vars
    /\ WF_vars(WorkerCycle)
    /\ WF_vars(WorkerStop)
    /\ WF_vars(WorkerSleep)
    /\ \A t \in Flushers : WF_vars(PassStep(t) \/ FlushDrop(t))
    /\ WF_vars(StopperStep)
    /\ SF_vars(ShutdownAcquire)

(* ------------------------------------------------- the tracing wrapper *)

\* a call that has not been made: no span, nothing attached, nothing run
NewCall ==
    /\ span' = NoSpan
    /\ spans_started' = 0
    /\ attached' = 0
    /\ detached' = 0
    /\ executed' = 0
    /\ unit_did' = NoOutcome
    /\ caller' = NoOutcome

\* no generator is being consumed
NewIteration ==
    /\ generator' = NoGenerator
    /\ yielded_values' = <<>>
    /\ exhausted' = FALSE
    /\ delivered' = <<>>
    /\ late_nexts' = 0

\* WithTracing(fn, name=..., filter_output=..., ignore_output=...): fn is a
\* function as written, which defines the function that is followed from
\* now on, or the traced function itself, which is decorated once more
WithTracing(fn, name, filter_output, ignore_output) ==
    /\ w_pc # "running"
    /\ unit' = Decorator(fn, name, filter_output, ignore_output)
    /\ IF fn.is_traced
       THEN /\ rewraps < MaxRewrap
            /\ rewraps' = rewraps + 1
            /\ UNCHANGED <<w_pc, span, spans_started, attached, detached,
                           executed, unit_did, caller, generator,
                           yielded_values, exhausted, delivered, late_nexts>>
       ELSE /\ rewraps' = 0
            /\ w_pc' = "idle"
            /\ NewCall
            /\ NewIteration
    /\ UNCHANGED <<evars, lvars, cvars, xvars>>

\* sync_traced_fn / async_traced_fn is called: _execute_with_span_sync /
\* _execute_with_span_async up to the call of executor()
ExecuteWithSpanStart(recording, args) ==
    /\ w_pc # "running"
    /\ unit.is_traced
    /\ unit.shape \in {"plain", "async"}
    /\ span' = SetupSpan(StartSpan(unit.span_name, recording), PrepareInput(args))
    /\ spans_started' = unit.layers
    /\ attached' = 1
    /\ detached' = 0
    /\ executed' = 0
    /\ unit_did' = NoOutcome
    /\ caller' = NoOutcome
    /\ w_pc' = "running"
    /\ NewIteration
    /\ UNCHANGED <<unit, rewraps>>
    /\ UNCHANGED <<evars, lvars, cvars, xvars>>

\* executor() ends with o: the rest of _execute_with_span_sync /
\* _execute_with_span_async, and the end of the `with` block
ExecuteWithSpanFinish(o) ==
    /\ w_pc = "running"
    /\ executed' = executed + 1
    /\ unit_did' = o
    /\ span' = EndSpan(
                 IF ~span.recording THEN span
                 ELSE IF o.kind = "return"
                      THEN FinalizeSpanSuccess(span, o.v, unit.filter_output,
                                               unit.ignore_output)
                 ELSE IF IsException(o.exc)
                      THEN HandleSpanException(span, o.exc)
                 ELSE span)
    /\ caller' = o
    /\ detached' = detached + 1
    /\ w_pc' = "idle"
    /\ UNCHANGED <<unit, rewraps, spans_started, attached, generator,
                   yielded_values, exhausted, delivered, late_nexts>>
    /\ UNCHANGED <<evars, lvars, cvars, xvars>>

\* _execute_generator_sync / _execute_generator_async: failure is what
\* `generator = executor()` or `generator = await executor()` raises, or NoExc
ExecuteGenerator(recording, args, item_kind, failure) ==
    LET sp == SetupSpan(StartSpan(unit.span_name, recording), PrepareInput(args)) IN
    /\ w_pc # "running"
    /\ unit.is_traced
    /\ spans_started' = unit.layers
    /\ attached' = 1
    /\ executed' = 0
    /\ unit_did' = NoOutcome
    /\ yielded_values' = <<>>
    /\ exhausted' = FALSE
    /\ delivered' = <<>>
    /\ late_nexts' = 0
    /\ IF failure # NoExc
       THEN /\ detached' = 1
            /\ span' = EndSpan(HandleSpanException(sp, failure))
            /\ caller' = Raised(failure)
            /\ generator' = NoGenerator
            /\ w_pc' = "idle"
       ELSE IF ~recording
       THEN /\ detached' = 1
            /\ span' = EndSpan(sp)
            /\ caller' = Outcome("generator", NoneValue, NoExc)
            /\ generator' = NewGenerator(item_kind)
            /\ w_pc' = "raw"
       ELSE /\ detached' = 0
            /\ span' = sp
            /\ caller' = Outcome("generator", NoneValue, NoExc)
            /\ generator' = NewGenerator(item_kind)
            /\ w_pc' = "iterating"
    /\ UNCHANGED <<unit, rewraps>>
    /\ UNCHANGED <<evars, lvars, cvars, xvars>>

\* gen_traced_fn is called; fn(*args, **kwargs) makes the generator object
\* without running its body, or raises when the arguments do not fit
ExecuteGeneratorSync(recording, args, item_kind, bad_call) ==
    /\ unit.shape = "generator"
    /\ bad_call => item_kind = "prim"
    /\ ExecuteGenerator(recording, args, item_kind,
                        IF bad_call THEN TypeErrorBadCall ELSE NoExc)

\* async_gen_traced_fn is awaited; `await executor()` awaits what
\* fn(*args, **kwargs) returned
ExecuteGeneratorAsync(recording, args, item_kind) ==
    /\ unit.shape = "async_generator"
    /\ item_kind = "prim"
    /\ ExecuteGenerator(recording, args, item_kind,
                        IF Awaitable(CallResultKind(unit.shape))
                        THEN NoExc ELSE TypeErrorNotAwaitable)

\* __next__ / __anext__ of the traced generator; was_exhausted is
\* self._exhausted, type the "type" of the summary
TracedNextStep(choice, was_exhausted, type) ==
    IF was_exhausted
    THEN /\ choice = "stop"
         /\ late_nexts < MaxLateNext
         /\ late_nexts' = late_nexts + 1
         /\ caller' = Stopped
         /\ UNCHANGED <<generator, yielded_values, exhausted, delivered, span,
                        detached>>
    ELSE LET o == UnderlyingNext(generator, choice) IN
         /\ generator.done => choice = "stop"
         /\ choice = "yield" => generator.produced < MaxItems
         /\ generator' = AfterNext(generator, o)
         /\ caller' = o
         /\ UNCHANGED late_nexts
         /\ IF o.kind = "item"
            THEN /\ yielded_values' = Append(yielded_values, o.v)
                 /\ delivered' = Append(delivered, o.v)
                 /\ UNCHANGED <<exhausted, span, detached>>
            ELSE IF o.kind = "stop"
            THEN /\ exhausted' = TRUE
                 /\ span' = EndSpan(FinalizeGeneratorSuccess(
                                span, yielded_values, type,
                                unit.filter_output, unit.ignore_output))
                 /\ detached' = detached + 1
                 /\ UNCHANGED <<yielded_values, delivered>>
            ELSE IF IsException(o.exc)
            THEN /\ exhausted' = TRUE
                 /\ span' = EndSpan(HandleSpanException(span, o.exc))
                 /\ detached' = detached + 1
                 /\ UNCHANGED <<yielded_values, delivered>>
            ELSE UNCHANGED <<exhausted, span, detached, yielded_values,
                             delivered>>

\* a __next__ without the `if self._exhausted` test
TracedGeneratorNextNoCheck(choice) ==
    /\ w_pc = "iterating"
    /\ unit.shape = "generator"
    /\ TracedNextStep(choice, FALSE, "generator")
    /\ UNCHANGED <<unit, rewraps, w_pc, spans_started, attached, executed,
                   unit_did>>
    /\ UNCHANGED <<evars, lvars, cvars, xvars>>

\* a __next__ that ends the span and detaches when it hands out an item
TracedGeneratorNextEndsEarly(choice) ==
    LET o == UnderlyingNext(generator, choice) IN
    /\ w_pc = "iterating"
    /\ unit.shape = "generator"
    /\ IF ~exhausted /\ o.kind = "item"
       THEN /\ generator.produced < MaxItems
            /\ generator' = AfterNext(generator, o)
            /\ caller' = o
            /\ yielded_values' = Append(yielded_values, o.v)
            /\ delivered' = Append(delivered, o.v)
            /\ span' = EndSpan(span)
            /\ detached' = detached + 1
            /\ UNCHANGED <<exhausted, late_nexts>>
       ELSE TracedNextStep(choice, exhausted, "generator")
    /\ UNCHANGED <<unit, rewraps, w_pc, spans_started, attached, executed,
                   unit_did>>
    /\ UNCHANGED <<evars, lvars, cvars, xvars>>

\* TracedGenerator.__next__: the consumer asks for the next item
TracedGeneratorNext(choice) ==
    /\ w_pc = "iterating"
    /\ unit.shape = "generator"
    /\ TracedNextStep(choice, exhausted, "generator")
    /\ UNCHANGED <<unit, rewraps, w_pc, spans_started, attached, executed,
                   unit_did>>
    /\ UNCHANGED <<evars, lvars, cvars, xvars>>

\* TracedAsyncGenerator.__anext__; no TracedAsyncGenerator is ever made
\* (ExecuteGeneratorAsync), so this step is never taken
TracedAsyncGeneratorAnext(choice) ==
    /\ w_pc = "iterating"
    /\ unit.shape = "async_generator"
    /\ TracedNextStep(choice, exhausted, "async_generator")
    /\ UNCHANGED <<unit, rewraps, w_pc, spans_started, attached, executed,
                   unit_did>>
    /\ UNCHANGED <<evars, lvars, cvars, xvars>>

\* next() on the generator object itself, which the wrapper returned because
\* the span was not recording
RawGeneratorNext(choice) ==
    LET o == UnderlyingNext(generator, choice) IN
    /\ w_pc = "raw"
    /\ ~generator.done
    /\ choice = "yield" => generator.produced < MaxItems
    /\ generator' = AfterNext(generator, o)
    /\ caller' = o
    /\ delivered' = IF o.kind = "item" THEN Append(delivered, o.v) ELSE delivered
    /\ UNCHANGED <<unit, rewraps, w_pc, span, spans_started, attached,
                   detached, executed, unit_did, yielded_values, exhausted,
                   late_nexts>>
    /\ UNCHANGED <<evars, lvars, cvars, xvars>>

WNext ==
    \/ \E fn \in RawUnits \cup (IF unit.is_traced THEN {unit} ELSE {}),
          name \in Names, filter_output \in FilterOutputs,
          ignore_output \in IgnoreOutputs :
          WithTracing(fn, name, filter_output, ignore_output)
    \/ \E recording \in BOOLEAN, args \in ArgLists :
          ExecuteWithSpanStart(recording, args)
    \/ \E o \in UnitOutcomes : ExecuteWithSpanFinish(o)
    \/ \E recording \in BOOLEAN, args \in ArgLists, item_kind \in ItemKinds,
          bad_call \in BOOLEAN :
          ExecuteGeneratorSync(recording, args, item_kind, bad_call)
    \/ \E recording \in BOOLEAN, args \in ArgLists, item_kind \in ItemKinds :
          ExecuteGeneratorAsync(recording, args, item_kind)
    \/ \E choice \in NextChoices : TracedGeneratorNext(choice)
    \/ \E choice \in NextChoices : RawGeneratorNext(choice)

WrapperSpec == Init /\ [][WNext]_vars

(* ------------------------------------------------------ the lock protocol *)
(* The two locks of AIQASpanExporter, step by step: every                   *)
(* `with self.buffer_lock:` and `with self.flush_lock:` is an acquire that  *)
(* waits and a release.  What the blocks do to the buffer is left out; the  *)
(* branch a pass takes after its extraction and the way its send ends are   *)
(* free choices.  Producers call export(), the worker and the explicit      *)
(* caller run flush() on threads of their own, one thread calls shutdown(). *)

\* the threads that call export()
Producers == {"p", "q"}
LkFlushers == {Worker, Flusher}
LkThreads == Producers \cup LkFlushers \cup {Stopper}

\* what a pass does with the batch it extracted
Branches == {"empty", "drop", "send"}

\* the positions inside a `with self.buffer_lock:` block, and the position
\* in front of each
InBufferBlock == {"export", "extract", "release_keys", "prepend",
                  "size_before", "size_after"}
AtBufferLock == {"export_wait", "extract_wait", "release_keys_wait",
                 "prepend_wait", "size_before_wait", "size_after_wait"}
Waiting(blk) == IF blk = "export" THEN "export_wait"
                ELSE IF blk = "extract" THEN "extract_wait"
                ELSE IF blk = "release_keys" THEN "release_keys_wait"
                ELSE IF blk = "prepend" THEN "prepend_wait"
                ELSE IF blk = "size_before" THEN "size_before_wait"
                ELSE "size_after_wait"

\* where a thread is when its call is over, having released the flush lock
\* if it held it: the worker and the explicit caller are out of flush(),
\* shutdown() goes on to its closing look at the buffer
AfterPass(t) == IF t = Stopper THEN "size_after_wait" ELSE "idle"

\* export() with a non-empty list is called
LkExportCall(t) ==
    /\ t \in Producers
    /\ lk_pc[t] = "idle"
    /\ lk_pc' = [lk_pc EXCEPT ![t] = "export_wait"]
    /\ UNCHANGED locks
    /\ UNCHANGED <<evars, wvars, cvars, xvars>>

\* flush() is called
LkFlushCall(t) ==
    /\ t \in LkFlushers
    /\ lk_pc[t] = "idle"
    /\ lk_pc' = [lk_pc EXCEPT ![t] = "flush_wait"]
    /\ UNCHANGED locks
    /\ UNCHANGED <<evars, wvars, cvars, xvars>>

\* shutdown() is called: it sets the flag and looks at the buffer size
LkShutdownCall ==
    /\ lk_pc[Stopper] = "idle"
    /\ lk_pc' = [lk_pc EXCEPT ![Stopper] = "size_before_wait"]
    /\ UNCHANGED locks
    /\ UNCHANGED <<evars, wvars, cvars, xvars>>

\* with self.buffer_lock: (entry)
LkBufferAcquire(t) ==
    /\ lk_pc[t] \in AtBufferLock
    /\ locks.buffer_lock = Free
    /\ locks' = [locks EXCEPT !.buffer_lock = t]
    /\ \E blk \in InBufferBlock :
           /\ Waiting(blk) = lk_pc[t]
           /\ lk_pc' = [lk_pc EXCEPT ![t] = blk]
    /\ UNCHANGED <<evars, wvars, cvars, xvars>>

\* with self.flush_lock: (entry), in flush() and in shutdown()
LkFlushAcquire(t) ==
    /\ lk_pc[t] = "flush_wait"
    /\ locks.flush_lock = Free
    /\ locks' = [locks EXCEPT !.flush_lock = t]
    /\ lk_pc' = [lk_pc EXCEPT ![t] = "extract_wait"]
    /\ UNCHANGED <<evars, wvars, cvars, xvars>>

\* export() leaves its block and returns
LkExportRelease(t) ==
    /\ lk_pc[t] = "export"
    /\ locks' = [locks EXCEPT !.buffer_lock = Free]
    /\ lk_pc' = [lk_pc EXCEPT ![t] = "idle"]
    /\ UNCHANGED <<evars, wvars, cvars, xvars>>

\* a first look at the buffer that is still inside its block when the final
\* pass asks for the flush lock
LkSizeBeforeReleaseKeepLock ==
    /\ lk_pc[Stopper] = "size_before"
    /\ locks' = locks
    /\ lk_pc' = [lk_pc EXCEPT ![Stopper] = "flush_wait"]
    /\ UNCHANGED <<evars, wvars, cvars, xvars>>

\* shutdown() leaves its first look at the buffer; the bounded join follows
\* and then the final pass
LkSizeBeforeRelease ==
    /\ lk_pc[Stopper] = "size_before"
    /\ locks' = [locks EXCEPT !.buffer_lock = Free]
    /\ lk_pc' = [lk_pc EXCEPT ![Stopper] = "flush_wait"]
    /\ UNCHANGED <<evars, wvars, cvars, xvars>>

\* an extraction whose pass keeps the buffer lock while it sends
LkExtractReleaseKeepLock(t, branch) ==
    /\ lk_pc[t] = "extract"
    /\ IF branch = "empty"
       THEN /\ locks' = [locks EXCEPT !.buffer_lock = Free, !.flush_lock = Free]
            /\ lk_pc' = [lk_pc EXCEPT ![t] = AfterPass(t)]
       ELSE IF branch = "drop"
       THEN /\ locks' = [locks EXCEPT !.buffer_lock = Free]
            /\ lk_pc' = [lk_pc EXCEPT ![t] = "release_keys_wait"]
       ELSE /\ locks' = locks
            /\ lk_pc' = [lk_pc EXCEPT ![t] = "send"]
    /\ UNCHANGED <<evars, wvars, cvars, xvars>>

\* _extract_and_remove_spans_from_buffer() returns; with an empty batch the
\* pass is over, with no server its keys are released, else it is sent
LkExtractRelease(t, branch) ==
    /\ lk_pc[t] = "extract"
    /\ IF branch = "empty"
       THEN /\ locks' = [locks EXCEPT !.buffer_lock = Free, !.flush_lock = Free]
            /\ lk_pc' = [lk_pc EXCEPT ![t] = AfterPass(t)]
       ELSE IF branch = "drop"
       THEN /\ locks' = [locks EXCEPT !.buffer_lock = Free]
            /\ lk_pc' = [lk_pc EXCEPT ![t] = "release_keys_wait"]
       ELSE /\ locks' = [locks EXCEPT !.buffer_lock = Free]
            /\ lk_pc' = [lk_pc EXCEPT ![t] = "send"]
    /\ UNCHANGED <<evars, wvars, cvars, xvars>>

\* the send ends: after a success the keys are released; after a failure
\* flush() puts the batch back and shutdown() only logs
LkSendDone(t, ok) ==
    /\ lk_pc[t] = "send"
    /\ IF ok
       THEN /\ lk_pc' = [lk_pc EXCEPT ![t] = "release_keys_wait"]
            /\ UNCHANGED locks
       ELSE IF t = Stopper
       THEN /\ lk_pc' = [lk_pc EXCEPT ![t] = AfterPass(t)]
            /\ locks' = [locks EXCEPT !.flush_lock = Free]
       ELSE /\ lk_pc' = [lk_pc EXCEPT ![t] = "prepend_wait"]
            /\ UNCHANGED locks
    /\ UNCHANGED <<evars, wvars, cvars, xvars>>

\* _remove_span_keys_from_tracking() or _prepend_spans_to_buffer() returns
\* and the pass leaves `with self.flush_lock:`
LkPassRelease(t) ==
    /\ lk_pc[t] \in {"release_keys", "prepend"}
    /\ locks' = [locks EXCEPT !.buffer_lock = Free, !.flush_lock = Free]
    /\ lk_pc' = [lk_pc EXCEPT ![t] = AfterPass(t)]
    /\ UNCHANGED <<evars, wvars, cvars, xvars>>

\* shutdown() leaves its closing look at the buffer and returns
LkSizeAfterRelease ==
    /\ lk_pc[Stopper] = "size_after"
    /\ locks' = [locks EXCEPT !.buffer_lock = Free]
    /\ lk_pc' = [lk_pc EXCEPT ![Stopper] = "idle"]
    /\ UNCHANGED <<evars, wvars, cvars, xvars>>

\* the step with which t leaves a buffer-lock block
LkBufferRelease(t) ==
    \/ LkExportRelease(t)
    \/ t = Stopper /\ LkSizeBeforeRelease
    \/ \E branch \in Branches : LkExtractRelease(t, branch)
    \/ LkPassRelease(t)
    \/ t = Stopper /\ LkSizeAfterRelease

LkNext ==
    \/ \E t \in Producers : LkExportCall(t)
    \/ \E t \in LkFlushers : LkFlushCall(t)
    \/ LkShutdownCall
    \/ \E t \in LkThreads : LkBufferAcquire(t)
    \/ \E t \in LkThreads : LkFlushAcquire(t)
    \/ \E t \in Producers : LkExportRelease(t)
    \/ LkSizeBeforeRelease
    \/ \E t \in LkThreads, branch \in Branches : LkExtractRelease(t, branch)
    \/ \E t \in LkThreads, ok \in BOOLEAN : LkSendDone(t, ok)
    \/ \E t \in LkThreads : LkPassRelease(t)
    \/ LkSizeAfterRelease

LockSpec == Init /\ [][LkNext]_vars

(* ------------------------------------------------------------ the client *)
(* get_client() of client.py, called from several threads.  functools'      *)
(* lru_cache looks the result up and, on a miss, runs the function body     *)
(* with no lock held; it stores the result when the body returns.  The      *)
(* body reads the global tracer provider, installs a TracerProvider of its  *)
(* own when it finds the default proxy, looks through the span processors   *)
(* of its provider for an AIQASpanExporter, and creates and adds one when   *)
(* it finds none.  Each of these is a step of its own.  The library's       *)
(* set_tracer_provider() sets the global provider once and leaves it alone  *)
(* afterwards; the look through the processors is taken to find every       *)
(* AIQASpanExporter that was added.                                         *)

\* the threads that call get_client()
Callers == {"t1", "t2"}

\* the default proxy provider, and no provider
Proxy == "proxy"
NoProvider == "none"

\* a TracerProvider the application installed itself
AppProvider == "app"

\* the providers: the application's, and the one each caller may construct
Providers == {AppProvider} \cup Callers

\* get_client() finds its result in the cache
GetClientHit(t) ==
    /\ c_pc[t] = "idle"
    /\ cached
    /\ c_result' = [c_result EXCEPT ![t] = "hit"]
    /\ UNCHANGED <<cached, tracer_provider, c_pc, provider, span_processors,
                   exporters, client>>
    /\ UNCHANGED <<evars, wvars, lvars, xvars>>

\* get_client() misses the cache and runs its body
GetClientMiss(t) ==
    /\ c_pc[t] = "idle"
    /\ ~cached
    /\ c_pc' = [c_pc EXCEPT ![t] = "get_provider"]
    /\ c_result' = [c_result EXCEPT ![t] = "none"]
    /\ UNCHANGED <<cached, tracer_provider, provider, span_processors,
                   exporters, client>>
    /\ UNCHANGED <<evars, wvars, lvars, xvars>>

\* provider = trace.get_tracer_provider()
GetTracerProvider(t) ==
    /\ c_pc[t] = "get_provider"
    /\ provider' = [provider EXCEPT ![t] = tracer_provider]
    /\ c_pc' = [c_pc EXCEPT ![t] = "check"]
    /\ UNCHANGED <<cached, tracer_provider, c_result, span_processors,
                   exporters, client>>
    /\ UNCHANGED <<evars, wvars, lvars, xvars>>

\* if not isinstance(provider, TracerProvider): provider = TracerProvider()
NewTracerProvider(t) ==
    /\ c_pc[t] = "check"
    /\ IF provider[t] = Proxy
       THEN /\ provider' = [provider EXCEPT ![t] = t]
            /\ c_pc' = [c_pc EXCEPT ![t] = "set"]
       ELSE /\ provider' = provider
            /\ c_pc' = [c_pc EXCEPT ![t] = "scan"]
    /\ UNCHANGED <<cached, tracer_provider, c_result, span_processors,
                   exporters, client>>
    /\ UNCHANGED <<evars, wvars, lvars, xvars>>

\* trace.set_tracer_provider(provider)
SetTracerProvider(t) ==
    /\ c_pc[t] = "set"
    /\ tracer_provider' = IF tracer_provider = Proxy THEN provider[t]
                          ELSE tracer_provider
    /\ c_pc' = [c_pc EXCEPT ![t] = "scan"]
    /\ UNCHANGED <<cached, c_result, provider, span_processors, exporters,
                   client>>
    /\ UNCHANGED <<evars, wvars, lvars, xvars>>

\* the application installs a TracerProvider of its own
AppSetsTracerProvider ==
    /\ tracer_provider = Proxy
    /\ tracer_provider' = AppProvider
    /\ UNCHANGED <<cached, c_pc, c_result, provider, span_processors,
                   exporters, client>>
    /\ UNCHANGED <<evars, wvars, lvars, xvars>>

\* _attach_aiqa_processor: the loop over the provider's span processors
AttachScan(t) ==
    /\ c_pc[t] = "scan"
    /\ c_pc' = [c_pc EXCEPT ![t] = IF span_processors[provider[t]] # {}
                                   THEN "store" ELSE "create"]
    /\ UNCHANGED <<cached, tracer_provider, c_result, provider,
                   span_processors, exporters, client>>
    /\ UNCHANGED <<evars, wvars, lvars, xvars>>

\* exporter = AIQASpanExporter(...): the constructor starts the exporter's
\* auto-flush worker thread
CreateExporter(t) ==
    /\ c_pc[t] = "create"
    /\ exporters' = exporters \cup {t}
    /\ c_pc' = [c_pc EXCEPT ![t] = "add"]
    /\ UNCHANGED <<cached, tracer_provider, c_result, provider,
                   span_processors, client>>
    /\ UNCHANGED <<evars, wvars, lvars, xvars>>

\* provider.add_span_processor(BatchSpanProcessor(exporter)) and
\* client["exporter"] = exporter
AddSpanProcessor(t) ==
    /\ c_pc[t] = "add"
    /\ span_processors' = [span_processors EXCEPT ![provider[t]] = @ \cup {t}]
    /\ client' = [client EXCEPT !.exporter = t]
    /\ c_pc' = [c_pc EXCEPT ![t] = "store"]
    /\ UNCHANGED <<cached, tracer_provider, c_result, provider, exporters>>
    /\ UNCHANGED <<evars, wvars, lvars, xvars>>

\* client["provider"] = provider; get_client() returns and the cache keeps
\* its result
GetClientReturn(t) ==
    /\ c_pc[t] = "store"
    /\ client' = [client EXCEPT !.provider = provider[t]]
    /\ cached' = TRUE
    /\ c_result' = [c_result EXCEPT ![t] = "ran"]
    /\ provider' = [provider EXCEPT ![t] = NoProvider]
    /\ c_pc' = [c_pc EXCEPT ![t] = "idle"]
    /\ UNCHANGED <<tracer_provider, span_processors, exporters>>
    /\ UNCHANGED <<evars, wvars, lvars, xvars>>

CNext ==
    \/ \E t \in Callers : GetClientHit(t)
    \/ \E t \in Callers : GetClientMiss(t)
    \/ \E t \in Callers : GetTracerProvider(t)
    \/ \E t \in Callers : NewTracerProvider(t)
    \/ \E t \in Callers : SetTracerProvider(t)
    \/ AppSetsTracerProvider
    \/ \E t \in Callers : AttachScan(t)
    \/ \E t \in Callers : CreateExporter(t)
    \/ \E t \in Callers : AddSpanProcessor(t)
    \/ \E t \in Callers : GetClientReturn(t)

ClientSpec == Init /\ [][CNext]_vars

(* ----------------------------------------------------- the ambient context *)
(* The current span of one execution context while several traced           *)
(* generators are created and consumed in it.  attach() makes a span the    *)
(* current one and returns a token that remembers what was current before;  *)
(* detach(token) puts back what the token remembers, whatever is current    *)
(* at that moment.  _execute_generator_sync attaches the span of the call   *)
(* and hands the token to the TracedGenerator, whose __next__ detaches it   *)
(* when the underlying generator ends or raises.  The calls and next()s of  *)
(* one execution context run one after the other.                           *)

Generators == 1..MaxGenerators

\* the span that is current before the first generator is created; the span
\* of generator g is g
OuterSpan == 0

NoToken == -1

\* trace.context_api.attach(set_span_in_context(span))
Attach(current, sp) == [current |-> sp, token |-> current]

\* trace.context_api.detach(token)
Detach(current, token) == token

\* _execute_generator_sync: start the span and attach it; without a
\* recording span, or when the call of the function raises, detach and end
\* it again; else return a TracedGenerator that keeps span and token
CtxExecuteGeneratorSync(g, recording, failure) ==
    LET a == Attach(current_span, g) IN
    /\ g_pc[g] = "new"
    /\ \A h \in Generators : h < g => g_pc[h] # "new"
    /\ IF ~recording \/ failure
       THEN /\ current_span' = Detach(a.current, a.token)
            /\ g_pc' = [g_pc EXCEPT ![g] = IF failure THEN "raised" ELSE "raw"]
            /\ UNCHANGED context_token
       ELSE /\ current_span' = a.current
            /\ context_token' = [context_token EXCEPT ![g] = a.token]
            /\ g_pc' = [g_pc EXCEPT ![g] = "open"]
    /\ UNCHANGED g_yielded
    /\ UNCHANGED <<evars, wvars, lvars, cvars>>

\* TracedGenerator.__next__: an item is passed on; or the generator ends or
\* raises an Exception, and the token is detached and the span ended
CtxTracedGeneratorNext(g, choice) ==
    /\ g_pc[g] = "open"
    /\ IF choice = "yield"
       THEN /\ g_yielded[g] < MaxYield
            /\ g_yielded' = [g_yielded EXCEPT ![g] = @ + 1]
            /\ UNCHANGED <<current_span, context_token, g_pc>>
       ELSE /\ current_span' = Detach(current_span, context_token[g])
            /\ g_pc' = [g_pc EXCEPT ![g] = "ended"]
            /\ UNCHANGED <<context_token, g_yielded>>
    /\ UNCHANGED <<evars, wvars, lvars, cvars>>

XNext ==
    \/ \E g \in Generators, recording \in BOOLEAN, failure \in BOOLEAN :
           CtxExecuteGeneratorSync(g, recording, failure)
    \/ \E g \in Generators, choice \in {"yield", "stop", "Exception"} :
           CtxTracedGeneratorNext(g, choice)

ContextSpec == Init /\ [][XNext]_vars

(* ---------------------------------------------------------------- claims *)

\* a thread is between its extract-and-clear and its release-keys / restore
Holding(t) == pc[t] \in {"extracted", "send", "sent",
                         "s_extracted", "s_send", "s_sent"}

\* t takes the step that performs its extract-and-clear
Extracts(t) == pc[t] \in {"extract", "s_extract"} /\ pc'[t] # pc[t]

IsPrefix(p, q) == Len(p) <= Len(q) /\ SubSeq(q, 1, Len(p)) = p

Range(q) == {q[i] : i \in 1..Len(q)}

\* the ids of q are strictly increasing: q is in admission order, no repeats
InAdmissionOrder(q) == \A i, j \in 1..Len(q) : i < j => q[i].id < q[j].id

\* in how many successfully sent batches key k was
SentCount(k) ==
    LET RECURSIVE Sum(_)
        Sum(i) == IF i = 0 THEN 0
                  ELSE (IF admitted[i] = k THEN timesSent[i] ELSE 0) + Sum(i - 1)
    IN Sum(Len(admitted))

\* the records that are buffered or held by a flush()/shutdown() pass
LiveIds == IdsOf(buffer) \cup UNION {IdsOf(spans_to_flush[t]) : t \in Threads}

\* no two buffered entries have the same key; what an export() step may do
C1_NoDuplicateKeys ==
    \A i, j \in 1..Len(buffer) :
        i # j => SpanKey(buffer[i]) # SpanKey(buffer[j])

C1_ExportStep ==
    (pc' = pc) =>
        /\ IsPrefix(buffer, buffer')
        /\ \A i \in Len(buffer) + 1..Len(buffer') :
              /\ SpanKey(buffer'[i]) \notin buffer_span_keys
              /\ \A j \in Len(buffer) + 1..Len(buffer') :
                    i # j => SpanKey(buffer'[i]) # SpanKey(buffer'[j])

(* C1: the live buffer never holds two entries with the same (traceId,     *)
(* spanId); an export() step leaves every buffered entry in place and      *)
(* appends only dicts whose key was not in the key set, so a duplicate     *)
(* (also a repeat inside one export batch) is not appended and the         *)
(* first-admitted entry stays.                                             *)
C1_Dedup == []C1_NoDuplicateKeys /\ [][C1_ExportStep]_vars

\* an export() has just counted a duplicate while a restored batch is buffered
C1_Witness ==
    /\ duplicates_count > 0
    /\ restored # <<>>
    /\ IsPrefix(restored, buffer)

\* what any step may do to held batches and to buffered records
C2_Step ==
    /\ \A t \in Threads :
          (Holding(t) /\ Holding(t)') => spans_to_flush'[t] = spans_to_flush[t]
    /\ \A i \in Len(admitted) + 1..Len(admitted') :
          /\ i \in IdsOf(buffer')
          /\ \A t \in Threads : i \notin IdsOf(spans_to_flush'[t])
    /\ \A r \in Range(buffer) :
          \/ r \in Range(buffer')
          \/ \E t \in Threads : Extracts(t) /\ r \in Range(spans_to_flush'[t])

(* C2: the batch of a pass is fixed when its extract-and-clear returns:    *)
(* no later step changes it, a record admitted afterwards is appended to   *)
(* the live buffer and is in no held batch, and a record leaves the buffer *)
(* only in a step that extracts it into the batch of the extracting pass.  *)
C2_AtomicDrain == [][C2_Step]_vars

\* a pass holds a non-empty batch and a record admitted since is buffered
C2_Witness ==
    \E t \in Threads :
        /\ Holding(t)
        /\ spans_to_flush[t] # <<>>
        /\ buffer # <<>>
        /\ \A a \in IdsOf(spans_to_flush[t]), b \in IdsOf(buffer) : a < b

\* the buffer after a restore; what an extraction returns
C3_Restored ==
    /\ IsPrefix(restored, buffer)
    /\ InAdmissionOrder(buffer)
    /\ \A t \in Threads : InAdmissionOrder(spans_to_flush[t])

C3_ExtractStep ==
    \A t \in Threads : Extracts(t) => spans_to_flush'[t] = buffer

(* C3: after a failed send has put its batch back, the buffer is that      *)
(* batch, in its original order, followed by the records admitted since in *)
(* admission order, and the next extract-and-clear returns exactly that    *)
(* buffer: restored records first, nothing duplicated, nothing dropped.    *)
C3_OrderPreserved == []C3_Restored /\ [][C3_ExtractStep]_vars

\* a pass is about to extract a restored batch followed by a later record
C3_Witness ==
    /\ restored # <<>>
    /\ Len(buffer) > Len(restored)
    /\ \E t \in Threads : pc[t] \in {"extract", "s_extract"}

(* C4: at most one pass is between its extract-and-clear and its           *)
(* release-keys / restore step, and that pass is the holder of the flush   *)
(* lock.                                                                   *)
C4_SingleFlight ==
    /\ Cardinality({t \in Threads : Holding(t)}) <= 1
    /\ \A t \in Threads : Holding(t) => flush_lock = t

\* one pass holds a batch while another caller waits for the flush lock
C4_Witness ==
    \E t, u \in Threads :
        /\ t # u
        /\ Holding(t)
        /\ spans_to_flush[t] # <<>>
        /\ pc[u] \in {"acquire", "s_acquire"}

Steps(t) == pc'[t] # pc[t]

\* how a flush() leaves its send, and how it ends after a failed send
C7_Step ==
    \A t \in FlushCallers :
        /\ (pc[t] = "send" /\ Steps(t)) =>
              /\ pc'[t] = "sent"
              /\ spans_to_flush'[t] = spans_to_flush[t]
        /\ (pc[t] = "sent" /\ outcome[t] # "ok" /\ Steps(t)) =>
              /\ pc'[t] = ReturnSite(t)
              /\ buffer' = spans_to_flush[t] \o buffer
              /\ KeysOf(spans_to_flush[t]) \subseteq buffer_span_keys'

(* C7: when the send inside flush() has failed, in whichever way and       *)
(* whether or not shutdown was requested, the step that ends flush() puts  *)
(* the whole extracted batch back at the head of the buffer and keeps its  *)
(* keys tracked; a pass leaves its send only with the batch untouched.     *)
C7_FailedBatchRestored == [][C7_Step]_vars

\* a flush() has raised after shutdown was requested, its batch is back
C7_Witness ==
    /\ restored # <<>>
    /\ IsPrefix(restored, buffer)
    /\ shutdown_requested
    /\ \E t \in FlushCallers : result[t] = "raised"

\* a flush() whose send failed ends by raising
C8_Step ==
    \A t \in FlushCallers :
        (pc[t] = "sent" /\ outcome[t] # "ok" /\ Steps(t)) =>
            result'[t] = "raised"

(* C8, as stated: whenever the send inside flush() has failed, flush()     *)
(* ends by raising to its caller.                                          *)
C8_FailureRaised == [][C8_Step]_vars

\* the steps of a flush() when no server address is configured
C9_Step ==
    \A t \in FlushCallers :
        /\ (pc[t] = "extract" /\ Steps(t)) => buffer' = <<>>
        /\ (~server_url /\ Steps(t)) => pc'[t] \notin {"send", "sent"}
        /\ (~server_url /\ pc[t] = "extracted" /\ spans_to_flush[t] # <<>>
               /\ Steps(t)) =>
              /\ pc'[t] = ReturnSite(t)
              /\ result'[t] = "returned"
              /\ sends'[t] = 0
              /\ buffer' = buffer
              /\ \A a \in IdsOf(spans_to_flush[t]), b \in IdsOf(buffer') : a < b
              /\ buffer_span_keys' = buffer_span_keys \ KeysOf(spans_to_flush[t])
              /\ KeysOf(spans_to_flush[t]) \cap buffer_span_keys' = {}

(* C9: with no server address configured no send is ever attempted; the    *)
(* extract-and-clear of flush() leaves the buffer empty, and the step that *)
(* ends a flush() holding a non-empty batch puts nothing back (the buffer  *)
(* then holds only records admitted since the extraction), removes every   *)
(* key of the batch from the key set and returns without raising.          *)
C9_UnconfiguredDrop == [][C9_Step]_vars

\* records were admitted and no shutdown was requested, so only flush() can
\* have taken them: nothing is buffered or tracked, nothing was sent, and
\* the explicit flush() has returned without a send
C9_Witness ==
    /\ ~server_url
    /\ ~shutdown_requested
    /\ Len(admitted) >= 2
    /\ buffer = <<>>
    /\ buffer_span_keys = {}
    /\ pc = [t \in Threads |-> IF t = Worker THEN "acquire" ELSE "idle"]
    /\ result[Flusher] = "returned"
    /\ sends[Flusher] = 0

\* the steps of a flush() that finds the buffer empty
C10_Step ==
    \A t \in FlushCallers :
        /\ (pc[t] = "extract" /\ buffer = <<>> /\ Steps(t)) =>
              /\ pc'[t] = "extracted"
              /\ spans_to_flush'[t] = <<>>
              /\ buffer' = buffer
              /\ buffer_span_keys' = buffer_span_keys
        /\ (pc[t] = "extracted" /\ spans_to_flush[t] = <<>> /\ Steps(t)) =>
              /\ pc'[t] = ReturnSite(t)
              /\ result'[t] = "returned"
              /\ sends'[t] = 0
              /\ buffer' = buffer
              /\ buffer_span_keys' = buffer_span_keys

(* C10: a flush() that finds the buffer empty changes neither the buffer   *)
(* nor the key set in any of its steps, makes no send attempt and returns  *)
(* without raising.                                                        *)
C10_EmptyFlush == [][C10_Step]_vars

\* nothing was ever admitted and the explicit flush() has returned
C10_Witness ==
    /\ admitted = <<>>
    /\ buffer = <<>>
    /\ pc[Flusher] = "idle"
    /\ result[Flusher] = "returned"
    /\ sends[Flusher] = 0

\* shutdown() has been called and has not returned
ShutdownRunning == pc[Stopper] # "idle"

\* shutdown() has returned
ShutdownReturned == pc[Stopper] = "idle" /\ result[Stopper] = "returned"

\* what a shutdown() call has done so far, and all of it once it returned
C11_Pass ==
    /\ extracts[Stopper] <= 1
    /\ sends[Stopper] <= 1
    /\ sender[Stopper] # "async"
    /\ sends[Stopper] = 1 => sender[Stopper] = "sync" /\ server_url
    /\ ShutdownReturned => extracts[Stopper] = 1

\* a final pass that holds a batch and has no server address ends with the
\* keys of the batch released and no send
C11_DropStep ==
    (/\ pc[Stopper] = "s_extracted"
     /\ Steps(Stopper)
     /\ spans_to_flush[Stopper] # <<>>
     /\ ~server_url)
    => /\ buffer_span_keys' = buffer_span_keys \ KeysOf(spans_to_flush[Stopper])
       /\ sends'[Stopper] = 0
       /\ pc'[Stopper] = "idle"

(* C11: a shutdown() call performs exactly one extract-and-clear and at    *)
(* most one send attempt, made with the blocking sender and never with the *)
(* async one; with no server address it makes no send attempt and releases *)
(* the keys of its batch.                                                   *)
C11_OneBlockingPass == []C11_Pass /\ [][C11_DropStep]_vars

\* shutdown() has returned after one extraction and one blocking send
C11_Witness ==
    /\ ShutdownReturned
    /\ extracts[Stopper] = 1
    /\ sends[Stopper] = 1
    /\ sender[Stopper] = "sync"

(* C12: shutdown() eventually returns in every execution, also when the    *)
(* worker has not stopped or a flush is still in flight when the bounded   *)
(* wait for the worker is over.                                             *)
C12_ShutdownReturns == ShutdownRunning ~> ShutdownReturned

\* the key set against the buffer
C19_Consistent ==
    /\ KeysOf(buffer) \subseteq buffer_span_keys
    /\ flush_lock = Free => buffer_span_keys = KeysOf(buffer)

(* C19: the key of every buffered entry is in the key set, and whenever no *)
(* pass holds a batch (the flush lock is free) the key set is exactly the  *)
(* set of keys of the buffered entries.                                     *)
C19_KeySetMatchesBuffer == []C19_Consistent

\* the keys of a batch in flight stay in the key set
C20_InFlightTracked ==
    \A t \in Threads : Holding(t) => KeysOf(spans_to_flush[t]) \subseteq buffer_span_keys

\* an extract-and-clear leaves the key set as it is, and an export() appends
\* no record whose key is the key of a record in flight
C20_Step ==
    /\ (\E t \in Threads : Extracts(t)) => buffer_span_keys' = buffer_span_keys
    /\ \A t \in Threads :
          (Holding(t) /\ Len(admitted') > Len(admitted))
          => KeysOf(buffer') \cap KeysOf(spans_to_flush[t]) = KeysOf(buffer) \cap KeysOf(spans_to_flush[t])

(* C20: extract-and-clear leaves the key set unchanged, so while a batch   *)
(* is in flight an export() of a record with the key of an in-flight       *)
(* record is dropped as a duplicate.                                        *)
C20_InFlightDedup == []C20_InFlightTracked /\ [][C20_Step]_vars

\* a batch is in flight, nothing is buffered, and the last export() dropped a
\* span whose key no buffered dict had: the key of a record in flight
C20_Witness ==
    \E t \in Threads :
        /\ Holding(t)
        /\ spans_to_flush[t] # <<>>
        /\ buffer = <<>>
        /\ duplicate_unbuffered
        /\ duplicates_count > 0
        /\ buffer_span_keys = KeysOf(spans_to_flush[t])

\* a call of a traced plain or async function has ended
CallEnded == unit.shape \in {"plain", "async"} /\ w_pc = "idle" /\ executed > 0

GeneratorExhausted ==
    /\ unit.shape = "generator"
    /\ w_pc = "iterating"
    /\ exhausted
    /\ generator.ending = Stopped

\* out is the JSON text of a summary of the n items: their count, the first
\* min(n, SampleLimit) of them in order, reduced, and truncated exactly
\* when n > SampleLimit
HasSummary(out, items) ==
    LET n == Len(items) IN
    /\ out.kind = "str"
    /\ "json" \in DOMAIN out
    /\ out.json.kind = "dict"
    /\ "yielded_count" \in DOMAIN out.json.d
    /\ out.json.d.yielded_count = n
    /\ n > 0 => /\ "sample_values" \in DOMAIN out.json.d
                /\ out.json.d.sample_values =
                      [i \in 1..Min(n, SampleLimit) |-> SerializeForSpan(items[i])]
    /\ "truncated" \in DOMAIN out.json.d <=> n > SampleLimit
    /\ "truncated" \in DOMAIN out.json.d => out.json.d.truncated = TRUE

Iterating == unit.shape = "generator" /\ w_pc = "iterating"

\* the span and the context token of a traced generator that is still
\* producing, and at most one end and one detach ever
C16_Open ==
    Iterating
    => /\ spans_started = 1
       /\ attached = 1
       /\ span.ended <= 1
       /\ detached <= 1
       /\ delivered = yielded_values
       /\ ~generator.done => span.ended = 0 /\ detached = 0 /\ ~exhausted
       /\ late_nexts > 0 => caller = Stopped

\* the span of a traced generator whose iteration ended with o
C16_Closed(o) ==
    /\ exhausted
    /\ span.ended = 1
    /\ detached = 1
    /\ o.kind = "stop" => span.status = "OK"
    /\ o.kind = "raise" => /\ span.status = "ERROR"
                           /\ span.events # <<>>
                           /\ late_nexts = 0 => caller = o

\* the statement for every way in which the iteration can end
C16_GeneratorSpan ==
    /\ C16_Open
    /\ (Iterating /\ generator.done) => C16_Closed(generator.ending)

(* C16: for a wrapped sync generator whose span is recording, the span is  *)
(* opened and attached when the wrapped call is made, is not ended while   *)
(* items are produced, and is ended once and its token detached once when  *)
(* the iteration ends by StopIteration (status OK) or by an instance of    *)
(* Exception (status ERROR, re-raised); later next() calls raise           *)
(* StopIteration and neither end nor detach again.  An exception that is   *)
(* no instance of Exception passes through with the span left open.        *)
C16_GeneratorSpanException ==
    /\ C16_Open
    /\ (Iterating /\ generator.done
          /\ (generator.ending.kind = "stop" \/ IsException(generator.ending.exc)))
       => C16_Closed(generator.ending)
    /\ (Iterating /\ generator.done /\ generator.ending.kind = "raise"
          /\ ~IsException(generator.ending.exc) /\ ~exhausted)
       => span.ended = 0 /\ detached = 0 /\ span.status = "UNSET"

\* the generator raised an Exception after an item, and next() was called
\* again afterwards
C16_Witness ==
    /\ Iterating
    /\ generator.ending.kind = "raise"
    /\ IsException(generator.ending.exc)
    /\ Len(delivered) > 0
    /\ late_nexts > 0
    /\ span.ended = 1
    /\ detached = 1

(* C17: for a wrapped async generator whose span is recording, the wrapped *)
(* call hands the consumer an iterator that delivers every item, and the   *)
(* span stays open and attached until the iteration is exhausted.          *)
C17_AsyncGeneratorSpan ==
    (/\ unit.shape = "async_generator"
     /\ spans_started > 0
     /\ span.recording
     /\ ~exhausted)
    => /\ w_pc = "iterating"
       /\ caller.kind \in {"generator", "item"}
       /\ span.ended = 0
       /\ detached = 0
       /\ delivered = yielded_values

\* decorating the traced function again gives the function itself
C18_Step == rewraps' = rewraps + 1 => unit' = unit

\* one wrapper around the function, one span for a call
C18_OneLayer ==
    /\ unit.is_traced => unit.layers = 1
    /\ spans_started <= 1
    /\ (w_pc # "idle" \/ executed > 0) => spans_started = 1

(* C18: applying WithTracing to a function that is already traced returns  *)
(* the same traced function, so one call produces one span, not two.       *)
C18_IdempotentWrapping == []C18_OneLayer /\ [][C18_Step]_vars

\* a function that was decorated twice has been called and has returned
C18_Witness ==
    /\ rewraps > 0
    /\ CallEnded
    /\ spans_started = 1
    /\ span.ended = 1

(* ------------------------------------------------- claims C21 and later *)

(* ShutdownLiveSpec, and in addition a flush() that waits for the flush     *)
(* lock gets it when the lock is free again and again: no caller is         *)
(* starved by the others.                                                   *)
FlushLiveSpec ==
    /\ Init
    /\ [][Next]_vars
    /\ WF_vars(WorkerCycle)
    /\ WF_vars(WorkerStop)
    /\ WF_vars(WorkerSleep)
    /\ \A t \in Flushers : WF_vars(PassStep(t) \/ FlushDrop(t))
    /\ \A t \in Flushers : SF_vars(FlushAcquire(t))
    /\ WF_vars(StopperStep)
    /\ SF_vars(ShutdownAcquire)

\* t is inside a flush() call
InFlush(t) == pc[t] \in {"acquire", "extract", "extracted", "send", "sent"}

\* t's flush() call is over
Finished(t) == pc[t] = ReturnSite(t) /\ result[t] # "none"

\* t waits for the flush lock while the flush() of u holds it
Overlapping(t, u) == t # u /\ pc[t] = "acquire" /\ flush_lock = u

(* C21: whenever a flush() call waits for the flush lock that another       *)
(* flush() call holds, on another thread or as a second coroutine of the    *)
(* same event loop, both calls eventually finish.                           *)
C21_OverlappingFlushesFinish ==
    \A t, u \in Flushers :
        /\ Overlapping(t, u) ~> Finished(u)
        /\ Overlapping(t, u) ~> Finished(t)

\* the same for flush() calls on distinct threads, when no second coroutine
\* ever runs on the explicit caller's event loop
C21_ThreadsFinish ==
    [](pc[Flusher2] = "idle") =>
        \A t, u \in FlushCallers :
            /\ Overlapping(t, u) ~> Finished(u)
            /\ Overlapping(t, u) ~> Finished(t)

\* once the flag is set the worker's loop enters no flush(), and the step
\* that stops the worker touches neither the buffer nor the lock nor sends
C22_NoNewCycleStep ==
    /\ shutdown_requested /\ ~InFlush(Worker) => ~InFlush(Worker)'
    /\ pc[Worker] # "w_stopped" /\ pc'[Worker] = "w_stopped" =>
           /\ pc[Worker] = "w_check"
           /\ UNCHANGED <<buffer, buffer_span_keys, flush_lock,
                          spans_to_flush, sends, timesSent>>
    /\ pc[Worker] = "w_stopped" => pc'[Worker] = "w_stopped"

\* after shutdown() has returned the worker starts no send
C22_NoSendAfterFinalPassStep ==
    ShutdownReturned => sends'[Worker] <= sends[Worker]

\* C22 without its last part: once the shutdown flag is set the worker's
\* loop starts no flush cycle, and the worker runs no flush when it stops.
C22_NoNewCycle == [][C22_NoNewCycleStep]_vars

(* C22, as stated: once the shutdown flag is set the worker starts no new   *)
(* flush cycle and runs no flush when it stops, and the worker starts no    *)
(* send after shutdown's final pass has completed.                          *)
C22_WorkerQuiescent ==
    [][C22_NoNewCycleStep /\ C22_NoSendAfterFinalPassStep]_vars

\* shutdown() is in its final pass, between extract-and-clear and return
InFinalPass == pc[Stopper] \in {"s_extracted", "s_send", "s_sent"}

\* the step in which shutdown() returns
ShutdownReturns == InFinalPass /\ pc'[Stopper] = "idle"

\* the ids a step puts into the buffer or into a batch that were in neither
Revived == LiveIds' \ (LiveIds \cup (Len(admitted) + 1)..Len(admitted'))

C23_Step ==
    /\ ShutdownReturns =>
           /\ result'[Stopper] = "returned"
           /\ IdsOf(spans_to_flush[Stopper]) \cap IdsOf(buffer') = {}
           /\ buffer' = buffer
           /\ Len(admitted) = admitted_at_extract => buffer' = <<>>
    /\ Revived = {}

(* C23: the step that ends shutdown() after a failed (or successful) send   *)
(* returns normally and puts nothing of its batch back; a record that is   *)
(* neither buffered nor held by a pass never comes back, so an abandoned    *)
(* batch is in no later send attempt; and when no record was admitted      *)
(* since the final pass's extract-and-clear the buffer is empty when       *)
(* shutdown() returns.                                                      *)
C23_FailedFinalSendAbandoned == [][C23_Step]_vars

\* shutdown() has returned after its send failed, nothing was admitted in
\* between, and the batch is gone
C23_Witness ==
    /\ ShutdownReturned
    /\ sends[Stopper] = 1
    /\ \E i \in 1..Len(admitted) : timesSent[i] = 0 /\ i \notin LiveIds
    /\ buffer = <<>>
    /\ buffer_span_keys # {}

C24_Step ==
    /\ InFlush(Worker) /\ ~InFlush(Worker)' => pc'[Worker] = "w_sleep"
    /\ pc[Worker] = "w_sleep" => pc'[Worker] \in {"w_sleep", "w_check"}
    /\ pc[Worker] = "w_check" /\ ~shutdown_requested =>
           pc'[Worker] \in {"w_check", "acquire"}

(* C24: a scheduler cycle whose flush() raised leaves the worker in its     *)
(* loop: the worker sleeps, tests the flag and, the flag not being set,     *)
(* enters flush() again, however the cycles before ended.                   *)
C24_WorkerSurvivesFailure ==
    /\ [][C24_Step]_vars
    /\ (pc[Worker] = "w_sleep" /\ result[Worker] = "raised")
           ~> (pc[Worker] = "acquire")

\* the worker sleeps after a cycle whose flush() raised, with the failed
\* batch back in the buffer
C24_Witness ==
    /\ pc[Worker] = "w_sleep"
    /\ result[Worker] = "raised"
    /\ ~shutdown_requested
    /\ restored # <<>>

\* the worker's loop enters flush()
WorkerEntersFlush == ~InFlush(Worker) /\ InFlush(Worker)'

(* C25, as stated: the worker sleeps for the interval before it invokes     *)
(* flush(), in the first cycle after construction too, so no scheduler      *)
(* flush happens before the worker has slept.                               *)
C25_SleepBeforeFlush == [][WorkerEntersFlush => slept]_vars

C25_Step ==
    /\ WorkerEntersFlush => pc[Worker] = "w_check" /\ ~shutdown_requested
    /\ InFlush(Worker) /\ ~InFlush(Worker)' => pc'[Worker] = "w_sleep"
    /\ pc[Worker] = "w_sleep" => ~InFlush(Worker)' /\ (slept' <=> pc'[Worker] = "w_check")

(* C25, amended: in every scheduler cycle the worker invokes flush() and    *)
(* then sleeps for the interval.  It enters flush() only from the test of   *)
(* the flag, with the flag not set; when flush() is over it sleeps before   *)
(* it tests the flag again, so two scheduler flushes are one sleep apart    *)
(* and a flag set during a sleep prevents every further scheduler flush.    *)
C25_FlushThenSleep == [][C25_Step]_vars

\* the worker has finished a cycle and slept, and is about to test the flag
\* with a record waiting in the buffer
C25_Witness ==
    /\ pc[Worker] = "w_check"
    /\ slept
    /\ buffer # <<>>

\* some pass is sending
SendInProgress == \E t \in LkThreads : lk_pc[t] = "send"

C26_NoLockAcrossSend ==
    /\ \A t \in LkThreads : lk_pc[t] = "send" => locks.buffer_lock # t
    /\ locks.flush_lock \notin Producers
    /\ \A t \in LkThreads :
           locks.buffer_lock = t =>
               /\ lk_pc[t] \in InBufferBlock
               /\ ENABLED LkBufferRelease(t)
    /\ \A t \in Producers :
           /\ lk_pc[t] \in {"idle", "export_wait", "export"}
           /\ lk_pc[t] = "export_wait" /\ locks.buffer_lock = Free =>
                  ENABLED LkBufferAcquire(t)

C26_Step ==
    \A t \in Producers :
        lk_pc'[t] # lk_pc[t] =>
            /\ locks'.flush_lock = locks.flush_lock
            /\ \A u \in LkThreads \ {t} : lk_pc'[u] = lk_pc[u]

(* C26: export() takes the buffer lock only and never the flush lock; no    *)
(* pass holds the buffer lock while its send is in progress, and whoever    *)
(* holds the buffer lock is inside a block that it leaves without waiting   *)
(* for anything; so an export() waits only for such a block, never for a    *)
(* send, and its steps leave every pass where it is: an export() started    *)
(* during a send runs to its end with the send still in progress.           *)
C26_ExportNeverWaitsForFlush == []C26_NoLockAcrossSend /\ [][C26_Step]_vars

\* a producer is inside export()'s block while a flush() is sending and
\* shutdown() waits for the flush lock
C26_Witness ==
    /\ \E t \in Producers : lk_pc[t] = "export" /\ locks.buffer_lock = t
    /\ \E t \in LkFlushers : lk_pc[t] = "send" /\ locks.flush_lock = t
    /\ lk_pc[Stopper] = "flush_wait"

\* the step in which t's pass lets go of its batch
PassEnds(t) == Holding(t) /\ ~Holding(t)'

\* t's pass may release the keys of its batch: its send has just succeeded,
\* or the batch has just been found unsendable for lack of a server
MayRelease(t) ==
    \/ pc[t] \in {"sent", "s_sent"} /\ outcome[t] = "ok"
    \/ pc[t] \in {"extracted", "s_extracted"} /\ ~server_url

C27_Step ==
    \A t \in Threads :
        /\ PassEnds(t) /\ spans_to_flush[t] # <<>> =>
               IF MayRelease(t)
               THEN buffer_span_keys' =
                        RemoveSpanKeys(buffer_span_keys, spans_to_flush[t])
               ELSE /\ pc[t] \in {"sent", "s_sent"}
                    /\ outcome[t] # "ok"
                    /\ KeysOf(spans_to_flush[t]) \subseteq buffer_span_keys'
        /\ Holding(t) /\ Holding(t)' =>
               KeysOf(spans_to_flush[t]) \subseteq buffer_span_keys'

(* C27: in flush() and in shutdown() the keys of a batch are released in    *)
(* the step that ends its pass after a successful send or after the drop    *)
(* for lack of a server, and in no other step: while the pass holds the     *)
(* batch and when it ends after a failed send the keys stay tracked.        *)
C27_ReleaseOnlyAfterSuccessOrDrop == [][C27_Step]_vars

\* the key of a record that was sent has been released, and a flush() pass
\* whose send failed is about to end
C27_Witness ==
    /\ \E i \in 1..Len(admitted) :
           timesSent[i] = 1 /\ admitted[i] \notin buffer_span_keys
    /\ \E t \in FlushCallers :
           pc[t] = "sent" /\ outcome[t] # "ok" /\ spans_to_flush[t] # <<>>

\* the wrapped function has been called and its span is not recording
NonRecordingCall == spans_started > 0 /\ ~span.recording

\* nothing was set on the span
SpanUntouched ==
    /\ span.input = NoneValue
    /\ span.output = NoneValue
    /\ span.status = "UNSET"
    /\ span.events = <<>>

\* what C28 says of a call of a function of one of the shapes in S
C28_For(S) ==
    NonRecordingCall /\ unit.shape \in S =>
        /\ SpanUntouched
        /\ w_pc # "iterating"
        /\ w_pc # "running" =>
               /\ span.ended = 1
               /\ attached = 1
               /\ detached = 1
        /\ unit.shape \in {"plain", "async"} /\ w_pc = "idle" =>
               /\ executed = 1
               /\ caller = unit_did
        /\ unit.shape \in {"generator", "async_generator"} =>
               \/ /\ w_pc = "raw"
                  /\ Len(delivered) = generator.produced
                  /\ \A i \in 1..Len(delivered) :
                         delivered[i] = Item(i, generator.item_kind)
               \/ /\ w_pc = "idle"
                  /\ caller = Raised(TypeErrorBadCall)

(* C28, as stated: when the span is not recording the wrapper sets no       *)
(* attribute, status or event, runs the wrapped function once, hands its    *)
(* result or exception to the caller unchanged, ends the span and, for the  *)
(* generator variants, detaches the context and returns the raw generator,  *)
(* whose items then reach the consumer directly.                            *)
C28_NonRecordingPassThrough == C28_For(Shapes)

\* the same for plain, async and sync generator functions, where it holds
C28_NonRecordingExceptAsyncGenerator == C28_For(Shapes \ {"async_generator"})

C30_OpenUntilSeen ==
    Iterating =>
        IF exhausted
        THEN /\ span.ended = 1
             /\ detached = 1
             /\ generator.done
             /\ generator.ending.kind \in {"stop", "raise"}
        ELSE /\ span.ended = 0
             /\ detached = 0
             /\ attached = 1

(* C30: while a traced generator is being consumed its span is ended and    *)
(* its context token detached exactly when a next() on the wrapper has seen *)
(* the underlying generator end, by StopIteration or by an exception, and   *)
(* then once; until then, however many items the consumer took and however  *)
(* long it has stopped asking, the span is open and the token attached.     *)
C30_EndedOnlyOnExhaustion == []C30_OpenUntilSeen

\* the consumer took two items and has not asked again: the generator is
\* not finished and the span is open
C30_Witness ==
    /\ Iterating
    /\ Len(delivered) = 2
    /\ ~generator.done
    /\ ~exhausted
    /\ span.recording
    /\ span.ended = 0
    /\ detached = 0

\* the step of shutdown()'s extract-and-clear
FinalExtract == pc[Stopper] = "s_extract" /\ pc'[Stopper] = "s_extracted"

\* the worker's put-back comes before the final extract-and-clear, and what
\* was put back is not in the buffer when shutdown() returns
C29_RestoredFirstStep ==
    /\ FinalExtract => ~Holding(Worker) /\ spans_to_flush[Worker] = <<>>
    /\ failed_inflight' # failed_inflight /\ failed_inflight' # {} =>
           /\ pc[Stopper] \in {"s_join", "s_acquire"}
           /\ failed_inflight' \subseteq IdsOf(buffer')
    /\ ShutdownReturns => failed_inflight \cap IdsOf(buffer') = {}

(* C29, as stated: when a scheduler flush that is in flight while           *)
(* shutdown() waits fails, its batch is put back before the final pass      *)
(* extracts, is part of the batch of the final blocking send, and is not    *)
(* in the buffer when shutdown() returns.                                   *)
C29_InFinalSend ==
    /\ [](InFinalPass => failed_inflight \subseteq IdsOf(spans_to_flush[Stopper]))
    /\ [][C29_RestoredFirstStep]_vars

(* C29, amended: such a batch is put back before the final pass extracts    *)
(* and is not in the buffer when shutdown() returns; each of its records    *)
(* is in the batch of the final blocking send unless an explicit flush()    *)
(* got the flush lock first and delivered it.                               *)
C29_InFinalSendOrDelivered ==
    /\ [](InFinalPass =>
            \A i \in failed_inflight :
                i \in IdsOf(spans_to_flush[Stopper]) \/ timesSent[i] > 0)
    /\ [][C29_RestoredFirstStep]_vars

\* the final pass is sending a batch that holds the records of the worker's
\* failed flush
C29_Witness ==
    /\ pc[Stopper] = "s_send"
    /\ failed_inflight # {}
    /\ failed_inflight \subseteq IdsOf(spans_to_flush[Stopper])
    /\ \A i \in failed_inflight : timesSent[i] = 0

\* the steps of thread t inside a call it has started
LkThreadStep(t) ==
    \/ LkBufferAcquire(t)
    \/ LkFlushAcquire(t)
    \/ LkBufferRelease(t)
    \/ \E ok \in BOOLEAN : LkSendDone(t, ok)

\* the lock t is asking for, and who holds it (Free if nobody, or if t asks
\* for none)
RequestsBufferLock(t) == lk_pc[t] \in AtBufferLock
RequestsFlushLock(t) == lk_pc[t] = "flush_wait"
HolderOf(t) == IF RequestsBufferLock(t) THEN locks.buffer_lock
               ELSE IF RequestsFlushLock(t) THEN locks.flush_lock
               ELSE Free

\* t can take a step itself, or waits for a thread that can, or waits for a
\* thread that waits for a thread that can: with two locks a longer chain of
\* distinct holders does not exist
CanProceed(t) ==
    \/ ENABLED LkThreadStep(t)
    \/ \E h \in LkThreads \ {t} :
           /\ HolderOf(t) = h
           /\ \/ ENABLED LkThreadStep(h)
              \/ \E h2 \in LkThreads \ {t, h} :
                     /\ HolderOf(h) = h2
                     /\ ENABLED LkThreadStep(h2)

\* the order in which the two locks are asked for
C35_LockOrder ==
    \A t \in LkThreads :
        /\ RequestsBufferLock(t) => locks.buffer_lock # t
        /\ RequestsFlushLock(t) =>
               /\ locks.buffer_lock # t
               /\ locks.flush_lock # t
        /\ lk_pc[t] = "send" => locks.buffer_lock # t

(* C35: with export(), flush() and shutdown() on threads of their own no    *)
(* state is a deadlock: every thread inside a call can take a step, or      *)
(* waits for a lock whose holder can, or whose holder waits for a lock      *)
(* whose holder can.  A thread asks for the buffer lock holding the flush   *)
(* lock or no lock, never the buffer lock itself; it asks for the flush     *)
(* lock holding no lock; and it holds no buffer lock while it sends.        *)
C35_NoDeadlock ==
    /\ C35_LockOrder
    /\ \A t \in LkThreads : lk_pc[t] # "idle" => CanProceed(t)

\* a chain of two waits: the explicit flush() and shutdown() wait for the
\* flush lock, which the worker holds while it waits for the buffer lock,
\* which a producer holds inside export()
C35_Witness ==
    /\ locks.flush_lock = Worker
    /\ lk_pc[Worker] \in AtBufferLock
    /\ \E t \in Producers : locks.buffer_lock = t /\ lk_pc[t] = "export"
    /\ lk_pc[Flusher] = "flush_wait"
    /\ lk_pc[Stopper] = "flush_wait"
    /\ ~ENABLED LkThreadStep(Worker)
    /\ ~ENABLED LkThreadStep(Stopper)

\* the running shutdown() call was made after an earlier call's
\* extract-and-clear, and export() has admitted no record since
RepeatCall == quiet = "again"

\* what a repeated call finds and does
C33_Inert ==
    RepeatCall =>
        /\ ShutdownRunning
        /\ buffer = <<>>
        /\ \A t \in Threads : spans_to_flush[t] = <<>>
        /\ sends[Stopper] = 0
        /\ pc[Stopper] \notin {"s_send", "s_sent"}
        /\ \/ ENABLED StopperStep
           \/ \E t \in Flushers :
                  /\ flush_lock = t
                  /\ ENABLED (FlushExtract(t) \/ FlushEmpty(t))

\* the steps taken while a repeated call runs, and the step that ends it
C33_Step ==
    /\ RepeatCall /\ quiet' # "no" =>
           /\ buffer' = buffer
           /\ buffer_span_keys' = buffer_span_keys
           /\ timesSent' = timesSent
    /\ RepeatCall /\ quiet' = "first" =>
           /\ pc[Stopper] = "s_extracted" /\ pc'[Stopper] = "idle"
           /\ result'[Stopper] = "returned"
           /\ extracts'[Stopper] = 1
           /\ sends'[Stopper] = 0

(* C33: a shutdown() call made after an earlier call's extract-and-clear,  *)
(* with no record admitted by export() since, finds the buffer empty and   *)
(* no batch held by anyone; it makes no send attempt, leaves the buffer    *)
(* and the key set as they are, and returns: at each of its positions it   *)
(* can take its next step, or it waits for the flush lock held by a        *)
(* flush() that is about to find the buffer empty and release the lock.    *)
C33_ShutdownIdempotent == []C33_Inert /\ [][C33_Step]_vars

\* a repeated call has made its extract-and-clear and is about to return,
\* after a first call whose failed send left keys in the key set
C33_Witness ==
    /\ RepeatCall
    /\ pc[Stopper] = "s_extracted"
    /\ extracts[Stopper] = 1
    /\ buffer_span_keys # {}
    /\ \E i \in 1..Len(admitted) : timesSent[i] = 0

\* shutdown() has returned and nothing is buffered or held by a pass: every
\* record buffered later was admitted after shutdown() returned
C32_Settled ==
    /\ ShutdownReturned
    /\ buffer = <<>>
    /\ \A t \in Threads : spans_to_flush[t] = <<>>

\* an export() of a record with an untracked key, made after shutdown() has
\* returned, appends the record to the buffer
C32_AdmitStep ==
    ShutdownReturned =>
        /\ Len(admitted') >= Len(admitted)
        /\ Len(admitted') > Len(admitted) =>
               /\ Len(buffer') = Len(buffer) + (Len(admitted') - Len(admitted))
               /\ IsPrefix(buffer, buffer')
               /\ IdsOf(buffer') = IdsOf(buffer) \cup
                                   (Len(admitted) + 1)..Len(admitted')

\* after shutdown() has returned export() can still be called with a record
\* whose key is untracked
C32_CanAdmit ==
    ShutdownReturned /\ Len(admitted) < MaxAdmit =>
        \E spans \in SpanLists :
            /\ \E i \in 1..Len(spans) : spans[i] \notin buffer_span_keys
            /\ ENABLED Export(spans)

\* the records leave the buffer only in the extract-and-clear of an explicit
\* flush() or of a further shutdown()
C32_KeptStep ==
    pc[Worker] = "w_stopped" =>
        \/ IdsOf(buffer) \subseteq IdsOf(buffer')
        \/ \E t \in Threads \ {Worker} : Extracts(t)

\* C32 when the worker has stopped before shutdown() returns: export()
\* still admits, and what it admits stays in the buffer until an explicit
\* flush() or a further shutdown() extracts it.
C32_BufferedWhenWorkerStopped ==
    /\ []C32_CanAdmit
    /\ [][C32_AdmitStep /\ C32_KeptStep]_vars
    /\ [](pc[Worker] = "w_stopped" => spans_to_flush[Worker] = <<>>)

(* C32, as stated: after shutdown() has returned export() still admits     *)
(* new records, and no scheduler cycle ever extracts them: from a moment   *)
(* after the return at which nothing is buffered or held, the worker       *)
(* never holds a batch again.                                               *)
C32_BufferedAfterShutdown ==
    /\ []C32_CanAdmit
    /\ [][C32_AdmitStep]_vars
    /\ [](C32_Settled => [](spans_to_flush[Worker] = <<>>))

\* the callers inside the body of get_client()
InGetClient == {t \in Callers : c_pc[t] # "idle"}

\* at most one exporter has been constructed, and no provider has two
C34_One ==
    /\ Cardinality(exporters) <= 1
    /\ \A p \in Providers : Cardinality(span_processors[p]) <= 1

\* C34 for calls that do not overlap: when no two callers are ever inside
\* get_client() together, at most one AIQASpanExporter is constructed and
\* added, however many calls are made.
C34_OneExporterSequential == [](Cardinality(InGetClient) <= 1) => []C34_One

(* C34, as stated: at most one AIQASpanExporter is ever constructed, and   *)
(* no provider ever has two of them, for any number of get_client() calls  *)
(* from any number of threads, first calls made together included.         *)
C34_OneExporter == []C34_One

\* the generators whose TracedGenerator is open
OpenGenerators == {g \in Generators : g_pc[g] = "open"}

\* every generator that was created has been exhausted
AllExhausted == \A g \in Generators : g_pc[g] # "open"

\* the spans from sp back to the outer span along the tokens, n steps at most
RECURSIVE TokenChain(_, _)
TokenChain(sp, n) ==
    IF sp \notin Generators \/ n = 0 THEN {}
    ELSE {sp} \cup TokenChain(context_token[sp], n - 1)

\* the open generators are nested: from the current span the tokens lead
\* through each of them, and through nothing else, back to the outer span
Nested ==
    /\ TokenChain(current_span, MaxGenerators + 1) = OpenGenerators
    /\ current_span \in OpenGenerators \cup {OuterSpan}

\* C31 for generators that are exhausted newest first: when every
\* exhaustion is that of the generator whose span is current, the open
\* generators stay nested, and the outer span is current when none is open.
C31_NestedStep ==
    Nested /\ (\A g \in Generators :
                   g_pc[g] = "open" /\ g_pc'[g] = "ended" => current_span = g)
        => Nested'

C31_RestoredNewestFirst ==
    /\ [][C31_NestedStep]_vars
    /\ [](Nested /\ AllExhausted => current_span = OuterSpan)

(* C31, as stated: whenever every traced generator created in the          *)
(* execution context has been exhausted, the current span is the span that *)
(* was current before the first of them was created, in whatever order     *)
(* they were exhausted.                                                     *)
C31_ContextRestored == AllExhausted => current_span = OuterSpan

====
